---- MODULE Spec2Model ----
(***************************************************************************)
(* Model of the meet-flow speech-turn pipeline:                            *)
(*   - VoiceActivityDetector          (src/src/audio/vad.py)               *)
(*   - AudioCapture                   (src/src/audio/capture.py)           *)
(*   - ConversationManager            (src/src/ai/conversation_manager.py) *)
(*   - GMeetAIAgent and main()        (src/main.py)                        *)
(*                                                                         *)
(* Three specifications share one state:                                   *)
(*   Spec     one run of main(): the conversation loop, the capture        *)
(*            thread enqueuing chunks concurrently, the wall clock;        *)
(*   SpecVAD  a VoiceActivityDetector fed arbitrary chunks;                *)
(*   SpecCM   a ConversationManager driven by an arbitrary caller.         *)
(***************************************************************************)
EXTENDS Integers, Sequences, FiniteSets, TLC

(***************************************************************************)
(* Program constants.                                                      *)
(***************************************************************************)
\* vad.py:58  self.speech_threshold = 5
speech_threshold == 5
\* vad.py:59  self.silence_threshold = 10
silence_threshold == 10
\* main.py:309  self._ignore_audio_until = time.time() + 5.0
GuardSeconds == 5

(***************************************************************************)
(* Bounds of the model.                                                    *)
(***************************************************************************)
\* largest number of frames a chunk handed to the VAD is split into
MaxFrames == 4
\* cap of the VAD's run counters (they grow without bound in the code)
MaxVadCount == 11
\* wall clock values are 1..MaxTime (seconds)
MaxTime == 7
\* cap of the capture queue's length (unbounded in the code)
MaxQueue == 1
\* number of chunks get_audio_buffer(duration) needs for `duration` seconds
BufferChunks == 2
\* ConversationManager(max_history_length=...), 50 by default
MaxHistoryLength == 2
\* ConversationManager(conversation_timeout=...), 300.0 by default
ConversationTimeout == 1
\* cap of len(conversation_history) under an arbitrary caller
MaxMessages == 4
\* wall clock values under an arbitrary caller are 1..MaxCallerTime
MaxCallerTime == 3
\* number of chunks the producer thread enqueues
MaxProduced == 5
\* length of the texts given to should_respond
MaxTextLen == 5
\* length of the texts given to split_text_for_synthesis, and the largest
\* max_length it is called with
MaxSplitLen == 6
MaxChunkLen == 3
\* samples of an audio buffer given to the transcription
MaxSamples == 2
\* Config.MAX_CONVERSATION_HISTORY (the MAX_CONVERSATION_HISTORY variable of
\* the environment), and the exchanges a caller makes
MaxConversationHistory == 2
MaxExchanges == 4
\* the longest timeout or duration a blocking wait is called with
MaxWait == 2

VARIABLES
    \* ---- VoiceActivityDetector (vad.py:53-55) and its last return value
    is_speaking, speech_frames, silence_frames,
    speech_started, speech_ended,
    \* ---- history of the VAD's input (observers, not program state)
    frame_run,        \* consecutive speech-classified frames ending the input
    max_frame_run,    \* longest such run since the VAD was last Silent
    silence_run,      \* consecutive silence-classified inputs ending the input
    \* ---- AudioCapture (capture.py:43-45)
    recording, audio_queue,
    \* ---- ConversationManager (conversation_manager.py:64-79, 657-658)
    is_active, conversation_history, last_activity_time, session_start_time,
    callbacks_set, cm_result,
    \* ---- GMeetAIAgent (main.py:37-42) and the locals of its coroutines
    pc, running, ignore_audio_until, audio_chunk, speech_audio,
    playing, exc,
    \* ---- observers of the run
    turn_log, stop_recording_calls, stop_conversation_calls,
    last_call,        \* the caller's last ConversationManager call and the
                      \* state it was made in
    \* ---- AudioCapture.stream (capture.py:45)
    stream,
    \* ---- observers of the capture queue: chunks enqueued so far, and the
    \* ---- numbers of the chunks handed to the consumer, in order
    produced, returned,
    \* ---- GPTClient.conversation_history (gpt_client.py:44)
    gpt_history,
    \* ---- a call of one of the components' functions, and what it returned
    fn_call, fn_result,
    \* ---- AudioPlayback.playing (playback.py:39)
    playback_playing,
    \* ---- whether the sounddevice output stream is playing (sd.play, sd.stop)
    sd_playing,
    \* ---- the files on disk that the program has written
    files,
    \* ---- ConversationManager.context (conversation_manager.py:65)
    cm_context,
    \* ---- time.time()
    now

vadVars == <<is_speaking, speech_frames, silence_frames, speech_started,
             speech_ended, frame_run, max_frame_run, silence_run>>
captureVars == <<recording, audio_queue>>
cmVars == <<is_active, conversation_history, last_activity_time,
            session_start_time, callbacks_set, cm_result>>
agentVars == <<pc, running, ignore_audio_until, audio_chunk, speech_audio,
               playing, exc>>
obsVars == <<turn_log, stop_recording_calls, stop_conversation_calls,
             last_call>>
tagVars == <<produced, returned>>
clientVars == <<gpt_history, fn_call, fn_result>>
\* what the run of main() and the callers of the VAD and of the
\* ConversationManager leave alone, or do not observe
moreVars == <<playback_playing, sd_playing, files, cm_context>>
restVars == <<tagVars, clientVars, moreVars>>
vars == <<vadVars, captureVars, cmVars, agentVars, obsVars, stream, restVars, now>>

Min(a, b) == IF a < b THEN a ELSE b
Max(a, b) == IF a > b THEN a ELSE b

(***************************************************************************)
(* VoiceActivityDetector                                                   *)
(***************************************************************************)
\* A chunk as the VAD sees it: the classification of each of its frames
\* (_split_into_frames pads the trailing partial frame; is_speech_frame
\* answers False on any error).
FrameSeqs(n) == UNION {[1..k -> BOOLEAN] : k \in 0..n}

RECURSIVE SpeechCount(_)
SpeechCount(frame_results) ==
    IF frame_results = <<>> THEN 0
    ELSE (IF Head(frame_results) THEN 1 ELSE 0) + SpeechCount(Tail(frame_results))

\* detect_speech: speech_count > len(frames) * 0.3
DetectSpeech_AtLeast(frame_results) ==
    10 * SpeechCount(frame_results) >= 3 * Len(frame_results)

DetectSpeech(frame_results) ==
    10 * SpeechCount(frame_results) > 3 * Len(frame_results)

\* update_speech_state, the counters
SpeechFramesAfter(speech_detected) ==
    IF speech_detected THEN speech_frames + 1 ELSE 0

SilenceFramesAfter_NoReset(speech_detected) ==
    IF speech_detected THEN silence_frames ELSE silence_frames + 1

SilenceFramesAfter(speech_detected) ==
    IF speech_detected THEN 0 ELSE silence_frames + 1

\* update_speech_state, "speech just started" / "speech just ended"
SpeechStarted(speech_detected) ==
    /\ speech_detected
    /\ ~is_speaking
    /\ SpeechFramesAfter(speech_detected) >= speech_threshold

SpeechEnded_NoStateTest(speech_detected) ==
    /\ ~speech_detected
    /\ SilenceFramesAfter(speech_detected) >= silence_threshold

SpeechEnded(speech_detected) ==
    /\ ~speech_detected
    /\ is_speaking
    /\ SilenceFramesAfter(speech_detected) >= silence_threshold

\* Observers: runs of speech-classified frames, saturated at speech_threshold.
RECURSIVE RunAfter(_, _)
RunAfter(run, frame_results) ==
    IF frame_results = <<>> THEN run
    ELSE RunAfter(IF Head(frame_results) THEN Min(run + 1, speech_threshold) ELSE 0,
                  Tail(frame_results))

RECURSIVE MaxRunAfter(_, _, _)
MaxRunAfter(best, run, frame_results) ==
    IF frame_results = <<>> THEN best
    ELSE LET r == IF Head(frame_results) THEN Min(run + 1, speech_threshold) ELSE 0
         IN MaxRunAfter(Max(best, r), r, Tail(frame_results))

\* update_speech_state(audio_data): the whole call
UpdateSpeechState(frame_results) ==
    LET speech_detected == DetectSpeech(frame_results) IN
    /\ speech_frames < MaxVadCount
    /\ silence_frames < MaxVadCount
    /\ speech_frames' = SpeechFramesAfter(speech_detected)
    /\ silence_frames' = SilenceFramesAfter(speech_detected)
    /\ speech_started' = SpeechStarted(speech_detected)
    /\ speech_ended' = SpeechEnded(speech_detected)
    /\ is_speaking' = IF SpeechStarted(speech_detected) THEN TRUE
                      ELSE IF SpeechEnded(speech_detected) THEN FALSE
                      ELSE is_speaking
    /\ frame_run' = RunAfter(frame_run, frame_results)
    /\ max_frame_run' =
          IF SpeechEnded(speech_detected)
          THEN RunAfter(frame_run, frame_results)
          ELSE MaxRunAfter(max_frame_run, frame_run, frame_results)
    /\ silence_run' = IF speech_detected THEN 0
                      ELSE Min(silence_run + 1, silence_threshold)

\* reset_state()
ResetState ==
    /\ is_speaking' = FALSE
    /\ speech_frames' = 0
    /\ silence_frames' = 0
    /\ speech_started' = FALSE
    /\ speech_ended' = FALSE
    /\ frame_run' = 0
    /\ max_frame_run' = 0
    /\ silence_run' = 0

VadInit ==
    /\ is_speaking = FALSE
    /\ speech_frames = 0
    /\ silence_frames = 0
    /\ speech_started = FALSE
    /\ speech_ended = FALSE
    /\ frame_run = 0
    /\ max_frame_run = 0
    /\ silence_run = 0

(***************************************************************************)
(* Wall clock                                                              *)
(***************************************************************************)
\* time.time() advances; every handler below reads it once.
Tick ==
    /\ now < MaxTime
    /\ now' = now + 1

(***************************************************************************)
(* ConversationManager                                                     *)
(***************************************************************************)
\* ConversationContext(): the fields as the dataclass defaults them
DefaultContext == [meeting_title |-> "None", recent_topics |-> <<>>]

\* The words of an exchange: str.lower(), len(word), str.isalpha()
ExchangeWords == {"plan", "Plan", "team", "risk", "cost", "the", "q3x9"}
LowerWord(word) == IF word = "Plan" THEN "plan" ELSE word
WordLen(word) == IF word = "the" THEN 3 ELSE 4
IsAlpha(word) == word # "q3x9"

\* _update_recent_topics: len(word) > 3 and word.isalpha()
MinTopicLen == 3
IsMeaningful(word) == WordLen(word) > MinTopicLen /\ IsAlpha(word)

\* _update_recent_topics: `for word in meaningful_words[:3]: if word not in
\* recent_topics: recent_topics.append(word)`
TopicWords == 3
RECURSIVE AppendUnique(_, _)
AppendUnique(topics, words) ==
    IF words = <<>> THEN topics
    ELSE AppendUnique(IF \E i \in 1..Len(topics) : topics[i] = Head(words)
                      THEN topics
                      ELSE Append(topics, Head(words)),
                      Tail(words))

\* _update_recent_topics(input_text, response_text); `words` is
\* f"{input_text} {response_text}".split()
MaxTopics == 10
UpdateRecentTopics_KeepOldest(topics, words) ==
    LET lowered == [i \in 1..Len(words) |-> LowerWord(words[i])]
        meaningful_words == SelectSeq(lowered, IsMeaningful)
        top == SubSeq(meaningful_words, 1, Min(Len(meaningful_words), TopicWords))
        appended == AppendUnique(topics, top)
    IN  IF Len(appended) > MaxTopics
        THEN SubSeq(appended, 1, MaxTopics)
        ELSE appended

UpdateRecentTopics(topics, words) ==
    LET lowered == [i \in 1..Len(words) |-> LowerWord(words[i])]
        meaningful_words == SelectSeq(lowered, IsMeaningful)
        top == SubSeq(meaningful_words, 1, Min(Len(meaningful_words), TopicWords))
        appended == AppendUnique(topics, top)
    IN  IF Len(appended) > MaxTopics
        THEN SubSeq(appended, Len(appended) - MaxTopics + 1, Len(appended))
        ELSE appended

\* ConversationMessage: role and what the content stands for (timestamps and
\* texts are not modelled).
SystemMsg(event) == [role |-> "system", content |-> event]
\* the texts a user message can carry (a transcription, or a text input)
Texts == {"utterance", "remark"}
UserMsg(text) == [role |-> "user", content |-> text]
AssistantMsg == [role |-> "assistant", content |-> "reply"]

NoTime == 0     \* session_start_time = None

RemoveAt(h, i) == SubSeq(h, 1, i - 1) \o SubSeq(h, i + 1, Len(h))

NonSystemCount(h) == Cardinality({i \in 1..Len(h) : h[i].role # "system"})

\* _add_message, the eviction loop: for i, msg in enumerate(history) with
\* history.pop(i) inside it
\* the role test of the eviction loop.
Evictable_AnyRole(msg) == TRUE

Evictable(msg) == msg.role # "system"

RECURSIVE EvictLoop(_, _, _, _)
EvictLoop(h, i, removed_count, messages_to_remove) ==
    IF i > Len(h) THEN h
    ELSE IF Evictable(h[i]) /\ removed_count < messages_to_remove
         THEN EvictLoop(RemoveAt(h, i), i + 1, removed_count + 1, messages_to_remove)
         ELSE EvictLoop(h, i + 1, removed_count, messages_to_remove)

\* _add_message(message)
AddMessage(h, message) ==
    LET appended == Append(h, message) IN
    IF NonSystemCount(appended) > MaxHistoryLength
    THEN EvictLoop(appended, 1, 0, NonSystemCount(appended) - MaxHistoryLength)
    ELSE appended

\* start_conversation: the history it leaves
StartedHistory_KeepOld(h) == Append(h, SystemMsg("session_start"))

StartedHistory(h) == <<SystemMsg("session_start")>>

\* start_conversation(context)
StartConversation ==
    /\ is_active' = TRUE
    /\ session_start_time' = now
    /\ last_activity_time' = now
    /\ conversation_history' = StartedHistory(conversation_history)

\* stop_conversation()
StopConversation ==
    /\ is_active' = FALSE
    /\ conversation_history' = Append(conversation_history, SystemMsg("session_end"))
    /\ UNCHANGED <<session_start_time, last_activity_time>>

\* is_conversation_active, the timeout test
TimedOut_AtLeast(t) == t - last_activity_time >= ConversationTimeout

TimedOut(t) == t - last_activity_time > ConversationTimeout

\* is_conversation_active()
IsConversationActive ==
    IF ~is_active
    THEN /\ cm_result' = "False"
         /\ UNCHANGED <<is_active, conversation_history, session_start_time,
                        last_activity_time>>
    ELSE IF TimedOut(now)
    THEN /\ StopConversation
         /\ cm_result' = "False"
    ELSE /\ cm_result' = "True"
         /\ UNCHANGED <<is_active, conversation_history, session_start_time,
                        last_activity_time>>

\* The outcomes of the three backends and of the local gate, as seen by the
\* ConversationManager.
TranscribeOutcomes == {"text", "empty", "error"}
GenerateOutcomes == {"text", "empty", "error"}
SynthOutcomes == {"file", "none", "raise"}

\* What the three backends do with a request, and what the adapters make of
\* it: each adapter catches every exception of its request.
WhisperBackend == {"text", "blank", "fail"}
ChatBackend == {"reply", "no_choices", "fail"}
TtsBackend == {"audio", "fail"}

\* WhisperClient.transcribe_speech_segment
TranscribeSpeechSegment(backend) == IF backend = "text" THEN "text" ELSE "empty"

\* GPTClient.generate_response
GptGenerateResponse(backend) == IF backend = "reply" THEN "text" ELSE "empty"

\* TTSClient.synthesize_text
SynthesizeText_AlwaysPath(backend) == "file"

SynthesizeText(backend) == IF backend = "audio" THEN "file" ELSE "none"

\* The outcome of each stage of a turn: the adapter's result, or an exception
\* raised by the ConversationManager's own code around it ("local_error").
TranscribedOf(stt) ==
    IF stt = "local_error" THEN "error" ELSE TranscribeSpeechSegment(stt)
GenOf(chat) ==
    IF chat = "local_error" THEN "error" ELSE GptGenerateResponse(chat)
TtsOf(tts) ==
    IF tts = "local_error" THEN "raise" ELSE SynthesizeText(tts)

\* _generate_response(input_text): what it returns and the history it leaves.
\* "error" is an exception inside the try block: the canned apology is returned
\* and nothing is added to the history.
GeneratedText(gen) ==
    CASE gen = "text" -> "reply"
      [] gen = "empty" -> "None"
      [] gen = "error" -> "apology"

HistoryAfterGenerate(h, gen) ==
    IF gen = "text" THEN AddMessage(h, AssistantMsg) ELSE h

\* _synthesize_response(response_text): what it returns
SynthResult(tts) == IF tts = "file" THEN "audio_file" ELSE "None"

\* _synthesize_response as one step: the signals and the synthesis, in order
SynthesisLog(tts) ==
    (IF callbacks_set THEN <<"pause">> ELSE <<>>) \o <<tts>> \o
    (IF callbacks_set THEN <<"resume">> ELSE <<>>)

\* what process_audio_input / process_text_input return when their except
\* block has caught an exception
CaughtResult == "None"

\* process_audio_input / process_text_input from the user message on, as one
\* step: the message, the gate, the generation request, the synthesis
RespondTo_GateFirst(text, should_respond, gen, tts) ==
    IF ~should_respond
    THEN /\ cm_result' = "None"
         /\ turn_log' = <<>>
         /\ UNCHANGED conversation_history
    ELSE /\ conversation_history' =
                HistoryAfterGenerate(AddMessage(conversation_history, UserMsg(text)), gen)
         /\ IF GeneratedText(gen) = "None"
            THEN /\ cm_result' = "None"
                 /\ turn_log' = <<"generate">>
            ELSE /\ cm_result' = SynthResult(tts)
                 /\ turn_log' = <<"generate">> \o SynthesisLog(tts)

RespondTo(text, should_respond, gen, tts) ==
    LET h1 == AddMessage(conversation_history, UserMsg(text)) IN
    IF ~should_respond
    THEN /\ conversation_history' = h1
         /\ cm_result' = "None"
         /\ turn_log' = <<>>
    ELSE /\ conversation_history' = HistoryAfterGenerate(h1, gen)
         /\ IF GeneratedText(gen) = "None"
            THEN /\ cm_result' = "None"
                 /\ turn_log' = <<"generate">>
            ELSE /\ cm_result' = SynthResult(tts)
                 /\ turn_log' = <<"generate">> \o SynthesisLog(tts)

\* process_text_input(text), the whole call
ProcessTextInput_ChecksExpiry(text, should_respond, gen, tts) ==
    IF ~is_active \/ TimedOut(now)
    THEN /\ cm_result' = "None"
         /\ turn_log' = <<>>
         /\ UNCHANGED <<is_active, conversation_history, session_start_time,
                        last_activity_time>>
    ELSE /\ last_activity_time' = now
         /\ UNCHANGED <<is_active, session_start_time>>
         /\ RespondTo(text, should_respond, gen, tts)

ProcessTextInput(text, should_respond, gen, tts) ==
    IF ~is_active
    THEN /\ cm_result' = "None"
         /\ turn_log' = <<>>
         /\ UNCHANGED <<is_active, conversation_history, session_start_time,
                        last_activity_time>>
    ELSE /\ last_activity_time' = now
         /\ UNCHANGED <<is_active, session_start_time>>
         /\ RespondTo(text, should_respond, gen, tts)

\* process_audio_input(audio_data, sample_rate), the whole call; `transcribed`
\* is the outcome of the transcription and `text` its result when there is one
ProcessAudioInputCall_NoActiveTest(transcribed, text, should_respond, gen, tts) ==
    IF FALSE
    THEN /\ cm_result' = "None"
         /\ turn_log' = <<>>
         /\ UNCHANGED <<is_active, conversation_history, session_start_time,
                        last_activity_time>>
    ELSE /\ last_activity_time' = now
         /\ UNCHANGED <<is_active, session_start_time>>
         /\ IF transcribed = "text"
            THEN RespondTo(text, should_respond, gen, tts)
            ELSE /\ cm_result' = IF transcribed = "error" THEN CaughtResult
                                 ELSE "None"
                 /\ turn_log' = <<>>
                 /\ UNCHANGED conversation_history

ProcessAudioInputCall(transcribed, text, should_respond, gen, tts) ==
    IF ~is_active
    THEN /\ cm_result' = "None"
         /\ turn_log' = <<>>
         /\ UNCHANGED <<is_active, conversation_history, session_start_time,
                        last_activity_time>>
    ELSE /\ last_activity_time' = now
         /\ UNCHANGED <<is_active, session_start_time>>
         /\ IF transcribed = "text"
            THEN RespondTo(text, should_respond, gen, tts)
            ELSE /\ cm_result' = IF transcribed = "error" THEN CaughtResult
                                 ELSE "None"
                 /\ turn_log' = <<>>
                 /\ UNCHANGED conversation_history

\* the observer of the caller's calls
NoTurn == [stt |-> "none", text |-> "none", should_respond |-> FALSE,
           chat |-> "none", tts |-> "none"]
NoCall == [op |-> "none", was_active |-> FALSE, idle |-> 0, messages |-> 0,
           seq |-> 0, turn |-> NoTurn]

CmInit ==
    /\ is_active = FALSE
    /\ conversation_history = <<>>
    /\ last_activity_time = now
    /\ session_start_time = NoTime
    /\ callbacks_set = FALSE
    /\ cm_result = "None"

(***************************************************************************)
(* AudioCapture                                                            *)
(***************************************************************************)
\* A queued chunk: its frames as the VAD will classify them, whether it
\* was captured while the agent's own reply was being played, and (an
\* observer) whether the loop has passed it to the VAD.
\* BUFFER_SIZE = 1024 samples is three 480-sample frames (the last padded).
AgentChunkFrames == {<<TRUE, TRUE, TRUE>>, <<FALSE, FALSE, FALSE>>}
NoChunk == [frames |-> <<>>, own |-> FALSE, fed |-> FALSE]

\* Queue.get: the chunk handed out, and the queue it leaves
QueueGet_Newest(q) == q[Len(q)]

QueueGet(q) == Head(q)

QueueRest(q) == Tail(q)

\* _audio_callback, on the capture thread
AudioCallback(frames) ==
    /\ UNCHANGED <<stream, restVars>>
    /\ recording
    /\ Len(audio_queue) < MaxQueue
    /\ audio_queue' = Append(audio_queue,
                             [frames |-> frames, own |-> playing, fed |-> FALSE])
    /\ UNCHANGED <<recording, vadVars, cmVars, agentVars, obsVars, now>>

\* stop_recording()
StopRecording_NoGuard ==
    /\ recording' = FALSE
    /\ stream' = "none"
    /\ UNCHANGED audio_queue

StopRecording ==
    IF ~recording
    THEN UNCHANGED <<recording, stream, audio_queue>>
    ELSE /\ recording' = FALSE
         /\ stream' = "none"
         /\ UNCHANGED audio_queue

\* start_recording(): the stream is opened and started ("ok"), cannot be
\* opened ("fail_open"), or is opened and cannot be started ("fail_start")
StartOutcomes == {"ok", "fail_open", "fail_start"}
StartRecording(outcome) ==
    IF recording
    THEN UNCHANGED <<recording, stream, audio_queue>>
    ELSE /\ recording' = (outcome = "ok")
         /\ stream' = CASE outcome = "ok" -> "open"
                         [] outcome = "fail_open" -> stream
                         [] outcome = "fail_start" -> "created"
         /\ UNCHANGED audio_queue

\* clear_buffer()
ClearBuffer == audio_queue' = <<>>

(***************************************************************************)
(* GMeetAIAgent                                                            *)
(***************************************************************************)
\* main.py:71  MeetingController(..., auto_setup_audio=False): av_input is None
AutoSetupAudio == FALSE

\* _should_ignore_audio() evaluated at time t
ShouldIgnoreAudio(t) == t < ignore_audio_until

\* _pause_audio_capture: the end of the guard window opened at time t
GuardUntil_NoMargin(t) == t

GuardUntil(t) == t + GuardSeconds

\* _pause_audio_capture()
PauseAudioCapture ==
    IF recording
    THEN /\ ClearBuffer
         /\ ignore_audio_until' = GuardUntil(now)
    ELSE UNCHANGED <<audio_queue, ignore_audio_until>>

\* _resume_audio_capture()
ResumeAudioCapture_KeepWindow ==
    IF recording
    THEN /\ ClearBuffer
         /\ UNCHANGED ignore_audio_until
    ELSE UNCHANGED <<audio_queue, ignore_audio_until>>

ResumeAudioCapture ==
    IF recording
    THEN /\ ClearBuffer
         /\ ignore_audio_until' = 0
    ELSE UNCHANGED <<audio_queue, ignore_audio_until>>

LoopPcs == {"loop_top", "get_buffer", "process_audio",
            "generate", "synth_pause", "synth_tts", "synth_resume",
            "play", "playing", "loop_sleep"}
SynthPcs == {"synth_pause", "synth_tts", "synth_resume"}

\* main(): initialize() and join_meeting()
MainSetup(outcome) ==
    /\ UNCHANGED <<stream, restVars>>
    /\ pc = "main"
    /\ pc' = CASE outcome = "ok" -> "start_loop"
               [] outcome = "init_failed" -> "main_finally_uninit"
               [] outcome = "join_failed" -> "main_finally"
    /\ UNCHANGED <<running, ignore_audio_until, audio_chunk, speech_audio,
                   playing, exc, vadVars, captureVars, cmVars, obsVars, now>>

\* start_conversation_loop, up to the while loop
StartConversationLoop(recording_started) ==
    /\ pc = "start_loop"
    /\ StartConversation
    /\ callbacks_set' = TRUE
    /\ \E outcome \in StartOutcomes :
          /\ (outcome = "ok") = recording_started
          /\ StartRecording(outcome)
    /\ running' = recording_started
    /\ pc' = IF recording_started THEN "loop_top" ELSE "main_finally"
    /\ UNCHANGED <<ignore_audio_until, audio_chunk, speech_audio, playing, exc,
                   cm_result, vadVars, obsVars, restVars, now>>

\* One pass of the while loop up to its first wait: get_audio_chunk (a
\* timeout leaves the loop where it is), the guard-window test, the VAD, and
\* the second guard-window test on speech_ended.  A chunk that is not
\* discarded is fed to the VAD.
ConversationLoopStep ==
    /\ UNCHANGED <<stream, restVars>>
    /\ pc = "loop_top"
    /\ IF ~running
       THEN /\ pc' = "loop_finally"
            /\ UNCHANGED <<audio_chunk, audio_queue, speech_audio, vadVars>>
       ELSE IF audio_queue = <<>>
       THEN UNCHANGED <<pc, audio_chunk, audio_queue, speech_audio, vadVars>>
       ELSE /\ audio_chunk' = [QueueGet(audio_queue) EXCEPT
                                   !.fed = ~ShouldIgnoreAudio(now)]
            /\ audio_queue' = QueueRest(audio_queue)
            /\ speech_audio' = <<>>
            /\ IF ShouldIgnoreAudio(now)
               THEN /\ pc' = "loop_top"
                    /\ UNCHANGED vadVars
               ELSE /\ UpdateSpeechState(QueueGet(audio_queue).frames)
                    /\ pc' = IF speech_ended' /\ ~ShouldIgnoreAudio(now)
                             THEN "get_buffer"
                             ELSE IF speech_ended' THEN "loop_top"
                             ELSE "loop_sleep"
    /\ UNCHANGED <<running, ignore_audio_until, playing, exc, recording,
                   cmVars, obsVars, now>>

\* get_audio_buffer(duration=5.0): one more chunk collected
GetAudioBufferTake ==
    /\ UNCHANGED <<stream, restVars>>
    /\ pc = "get_buffer"
    /\ recording
    /\ Len(speech_audio) < BufferChunks
    /\ audio_queue # <<>>
    /\ speech_audio' = Append(speech_audio, QueueGet(audio_queue))
    /\ audio_queue' = QueueRest(audio_queue)
    /\ UNCHANGED <<pc, running, ignore_audio_until, audio_chunk, playing, exc,
                   recording, vadVars, cmVars, obsVars, now>>

\* get_audio_buffer(duration=5.0): enough samples, or duration * 2 elapsed
GetAudioBufferReturn ==
    /\ UNCHANGED <<stream, restVars>>
    /\ pc = "get_buffer"
    /\ pc' = IF recording /\ speech_audio # <<>> THEN "process_audio" ELSE "loop_sleep"
    /\ UNCHANGED <<running, ignore_audio_until, audio_chunk, speech_audio,
                   playing, exc, vadVars, captureVars, cmVars, obsVars, now>>

\* process_audio_input up to the gate: transcription, the user message,
\* should_respond
ProcessAudioInput(transcribed, should_respond) ==
    /\ UNCHANGED <<stream, restVars>>
    /\ pc = "process_audio"
    /\ turn_log' = <<>>
    /\ IF ~is_active
       THEN /\ cm_result' = "None"
            /\ pc' = "loop_sleep"
            /\ UNCHANGED <<conversation_history, last_activity_time>>
       ELSE /\ last_activity_time' = now
            /\ IF transcribed # "text"
               THEN /\ cm_result' = "None"
                    /\ pc' = "loop_sleep"
                    /\ UNCHANGED conversation_history
               ELSE /\ conversation_history' = AddMessage(conversation_history, UserMsg("utterance"))
                    /\ cm_result' = "None"
                    /\ pc' = IF should_respond THEN "generate" ELSE "loop_sleep"
    /\ UNCHANGED <<is_active, session_start_time, callbacks_set, running,
                   ignore_audio_until, audio_chunk, speech_audio, playing, exc,
                   vadVars, captureVars, stop_recording_calls,
                   stop_conversation_calls, last_call, now>>

\* _generate_response and the test of its result
GenerateResponse(gen) ==
    /\ UNCHANGED <<stream, restVars>>
    /\ pc = "generate"
    /\ conversation_history' = HistoryAfterGenerate(conversation_history, gen)
    /\ pc' = IF GeneratedText(gen) = "None" THEN "loop_sleep" ELSE "synth_pause"
    /\ UNCHANGED <<is_active, last_activity_time, session_start_time,
                   callbacks_set, cm_result, running, ignore_audio_until,
                   audio_chunk, speech_audio, playing, exc, vadVars,
                   captureVars, obsVars, now>>

\* _synthesize_response: the pause signal
SynthPause ==
    /\ UNCHANGED <<stream, restVars>>
    /\ pc = "synth_pause"
    /\ IF callbacks_set
       THEN /\ PauseAudioCapture
            /\ turn_log' = Append(turn_log, "pause")
       ELSE UNCHANGED <<audio_queue, ignore_audio_until, turn_log>>
    /\ pc' = "synth_tts"
    /\ UNCHANGED <<running, audio_chunk, speech_audio, playing, exc, recording,
                   vadVars, cmVars, stop_recording_calls,
                   stop_conversation_calls, last_call, now>>

\* _synthesize_response: where control goes after the synthesis, whatever its
\* outcome (return in the try block, or the except block): the finally block
AfterSynthesis_NoFinally(tts) == IF tts = "raise" THEN "loop_sleep" ELSE "synth_resume"

AfterSynthesis(tts) == "synth_resume"

\* _synthesize_response: split_text_for_synthesis and synthesize_text
SynthTTS(tts) ==
    /\ UNCHANGED <<stream, restVars>>
    /\ pc = "synth_tts"
    /\ cm_result' = SynthResult(tts)
    /\ turn_log' = Append(turn_log, tts)
    /\ pc' = AfterSynthesis(tts)
    /\ UNCHANGED <<is_active, conversation_history, last_activity_time,
                   session_start_time, callbacks_set, running,
                   ignore_audio_until, audio_chunk, speech_audio, playing, exc,
                   vadVars, captureVars, stop_recording_calls,
                   stop_conversation_calls, last_call, now>>

\* _synthesize_response: the finally block, then the return into
\* _process_speech (or the propagation of a pending interrupt)
SynthResume ==
    /\ UNCHANGED <<stream, restVars>>
    /\ pc = "synth_resume"
    /\ IF callbacks_set
       THEN /\ ResumeAudioCapture
            /\ turn_log' = Append(turn_log, "resume")
       ELSE UNCHANGED <<audio_queue, ignore_audio_until, turn_log>>
    /\ pc' = IF exc THEN "loop_finally"
             ELSE IF cm_result = "audio_file" THEN "play" ELSE "loop_sleep"
    /\ UNCHANGED <<running, audio_chunk, speech_audio, playing, exc, recording,
                   vadVars, cmVars, stop_recording_calls,
                   stop_conversation_calls, last_call, now>>

\* _process_speech: inject_audio_file(response_audio_file) when av_input
\* exists, else _play_audio_fallback (afplay); both block while the reply plays
PlayStart ==
    /\ UNCHANGED <<stream, restVars>>
    /\ pc = "play"
    /\ playing' = TRUE
    /\ turn_log' = Append(turn_log, IF AutoSetupAudio THEN "inject_start" ELSE "afplay_start")
    /\ pc' = "playing"
    /\ UNCHANGED <<running, ignore_audio_until, audio_chunk, speech_audio, exc,
                   vadVars, captureVars, cmVars, stop_recording_calls,
                   stop_conversation_calls, last_call, now>>

\* the playback call returns; the temporary audio file is unlinked
PlayEnd ==
    /\ UNCHANGED <<stream, restVars>>
    /\ pc = "playing"
    /\ playing' = FALSE
    /\ turn_log' = Append(turn_log, "play_end")
    /\ pc' = "loop_sleep"
    /\ UNCHANGED <<running, ignore_audio_until, audio_chunk, speech_audio, exc,
                   vadVars, captureVars, cmVars, stop_recording_calls,
                   stop_conversation_calls, last_call, now>>

\* await asyncio.sleep(0.1), the end of one iteration
LoopSleep ==
    /\ UNCHANGED <<stream, restVars>>
    /\ pc = "loop_sleep"
    /\ pc' = "loop_top"
    /\ audio_chunk' = NoChunk
    /\ speech_audio' = <<>>
    /\ cm_result' = "None"
    /\ turn_log' = <<>>
    /\ UNCHANGED <<running, ignore_audio_until, playing, exc, vadVars,
                   captureVars, is_active, conversation_history,
                   last_activity_time, session_start_time, callbacks_set,
                   stop_recording_calls, stop_conversation_calls, last_call, now>>

\* KeyboardInterrupt, cancellation or an exception raised inside the loop:
\* control leaves through the finally blocks
LoopInterrupted ==
    /\ UNCHANGED <<stream, restVars>>
    /\ pc \in LoopPcs
    /\ ~exc
    /\ exc' = TRUE
    /\ playing' = FALSE
    /\ audio_chunk' = NoChunk
    /\ speech_audio' = <<>>
    /\ pc' = IF pc \in {"synth_pause", "synth_tts"} THEN "synth_resume"
             ELSE IF pc = "synth_resume" THEN pc
             ELSE "loop_finally"
    /\ UNCHANGED <<running, ignore_audio_until, vadVars, captureVars, cmVars,
                   obsVars, now>>

\* start_conversation_loop: the finally block
LoopFinally ==
    /\ UNCHANGED <<restVars>>
    /\ pc = "loop_finally"
    /\ StopRecording
    /\ StopConversation
    /\ stop_recording_calls' = stop_recording_calls + 1
    /\ stop_conversation_calls' = stop_conversation_calls + 1
    /\ pc' = "main_finally"
    /\ UNCHANGED <<callbacks_set, cm_result, running, ignore_audio_until,
                   audio_chunk, speech_audio, playing, exc, turn_log, last_call,
                   vadVars, now>>

\* main(): finally: agent.stop()
Stop ==
    /\ UNCHANGED <<restVars>>
    /\ pc = "main_finally"
    /\ running' = FALSE
    /\ StopRecording
    /\ StopConversation
    /\ stop_recording_calls' = stop_recording_calls + 1
    /\ stop_conversation_calls' = stop_conversation_calls + 1
    /\ pc' = "done"
    /\ UNCHANGED <<callbacks_set, cm_result, ignore_audio_until, audio_chunk,
                   speech_audio, playing, exc, turn_log, last_call, vadVars, now>>

\* agent.stop() after initialize() failed: audio_capture is still None
StopUninitialized ==
    /\ UNCHANGED <<stream, restVars>>
    /\ pc = "main_finally_uninit"
    /\ running' = FALSE
    /\ StopConversation
    /\ stop_conversation_calls' = stop_conversation_calls + 1
    /\ pc' = "done"
    /\ UNCHANGED <<callbacks_set, cm_result, ignore_audio_until, audio_chunk,
                   speech_audio, playing, exc, turn_log, stop_recording_calls,
                   last_call, vadVars, captureVars, now>>

\* Time passes. The run reads the clock at a turn's start, when the pause
\* signal opens the guard window and when the window is tested; the clock is
\* advanced where the coroutine waits inside a turn (the three backend
\* requests, the playback) and wherever the window is open.
ClockedPcs == {"process_audio", "generate", "synth_tts", "playing"}

ClockTick ==
    /\ UNCHANGED <<stream, restVars>>
    /\ pc \in ClockedPcs \/ ignore_audio_until # 0
    /\ Tick
    /\ UNCHANGED <<vadVars, captureVars, cmVars, agentVars, obsVars>>

\* no client function has been called
NoFn == [op |-> "none"]

(***************************************************************************)
(* The state after construction, and the run of main()                     *)
(***************************************************************************)
Init ==
    /\ now = 1
    /\ VadInit
    /\ CmInit
    /\ recording = FALSE
    /\ audio_queue = <<>>
    /\ pc = "main"
    /\ running = FALSE
    /\ ignore_audio_until = 0
    /\ audio_chunk = NoChunk
    /\ speech_audio = <<>>
    /\ playing = FALSE
    /\ exc = FALSE
    /\ turn_log = <<>>
    /\ stop_recording_calls = 0
    /\ stop_conversation_calls = 0
    /\ last_call = NoCall
    /\ stream = "none"
    /\ produced = 0
    /\ returned = <<>>
    /\ gpt_history = <<>>
    /\ fn_call = NoFn
    /\ fn_result = NoFn
    /\ playback_playing = FALSE
    /\ sd_playing = FALSE
    /\ files = {}
    /\ cm_context = DefaultContext

Next ==
    \/ \E outcome \in {"ok", "init_failed", "join_failed"} : MainSetup(outcome)
    \/ \E recording_started \in BOOLEAN : StartConversationLoop(recording_started)
    \/ \E frames \in AgentChunkFrames : AudioCallback(frames)
    \/ ConversationLoopStep
    \/ GetAudioBufferTake
    \/ GetAudioBufferReturn
    \/ \E transcribed \in TranscribeOutcomes, should_respond \in BOOLEAN :
          ProcessAudioInput(transcribed, should_respond)
    \/ \E gen \in GenerateOutcomes : GenerateResponse(gen)
    \/ SynthPause
    \/ \E tts \in SynthOutcomes : SynthTTS(tts)
    \/ SynthResume
    \/ PlayStart
    \/ PlayEnd
    \/ LoopSleep
    \/ LoopInterrupted
    \/ LoopFinally
    \/ Stop
    \/ StopUninitialized
    \/ ClockTick

Spec == Init /\ [][Next]_vars

(***************************************************************************)
(* A VoiceActivityDetector fed arbitrary chunks                            *)
(***************************************************************************)
VadFeed(frame_results) ==
    /\ UNCHANGED <<stream, restVars>>
    /\ UpdateSpeechState(frame_results)
    /\ UNCHANGED <<captureVars, cmVars, agentVars, obsVars, now>>

VadReset ==
    /\ UNCHANGED <<stream, restVars>>
    /\ ResetState
    /\ UNCHANGED <<captureVars, cmVars, agentVars, obsVars, now>>

NextVAD ==
    \/ \E frame_results \in FrameSeqs(MaxFrames) : VadFeed(frame_results)
    \/ VadReset

SpecVAD == Init /\ [][NextVAD]_vars

(***************************************************************************)
(* An AudioCapture with its producer thread and one consumer               *)
(***************************************************************************)
CaptureUnchanged ==
    UNCHANGED <<vadVars, cmVars, running, ignore_audio_until, audio_chunk,
                playing, exc, obsVars, clientVars, moreVars, now>>

\* start_recording() called by the consumer
CaptureStart(outcome) ==
    /\ pc = "main"
    /\ StartRecording(outcome)
    /\ fn_call' = [op |-> "start_recording", was_recording |-> recording]
    /\ UNCHANGED <<pc, speech_audio, tagVars, gpt_history, fn_result, moreVars>>
    /\ UNCHANGED <<vadVars, cmVars, running, ignore_audio_until, audio_chunk,
                   playing, exc, obsVars, now>>

\* stop_recording() called by the consumer
CaptureStop ==
    /\ pc = "main"
    /\ StopRecording
    /\ fn_call' = [op |-> "stop_recording", was_recording |-> recording]
    /\ UNCHANGED <<pc, speech_audio, tagVars, gpt_history, fn_result, moreVars>>
    /\ UNCHANGED <<vadVars, cmVars, running, ignore_audio_until, audio_chunk,
                   playing, exc, obsVars, now>>

\* _audio_callback on the producer thread; the chunk carries its number
CaptureProduce(frames) ==
    /\ recording
    /\ produced < MaxProduced
    /\ Len(audio_queue) < MaxQueue + 1
    /\ produced' = produced + 1
    /\ audio_queue' = Append(audio_queue,
                             [frames |-> frames, own |-> FALSE, fed |-> FALSE,
                              n |-> produced + 1])
    /\ UNCHANGED <<recording, stream, pc, speech_audio, returned>>
    /\ CaptureUnchanged

\* get_audio_chunk(timeout) called by the consumer (a timeout returns None)
CaptureGetChunk ==
    /\ pc = "main"
    /\ audio_queue # <<>>
    /\ returned' = Append(returned, QueueGet(audio_queue).n)
    /\ audio_queue' = QueueRest(audio_queue)
    /\ UNCHANGED <<recording, stream, pc, speech_audio, produced>>
    /\ CaptureUnchanged

\* get_audio_buffer(duration) called by the consumer: the recording test
CaptureGetBufferCall ==
    /\ pc = "main"
    /\ recording
    /\ pc' = "get_buffer"
    /\ speech_audio' = <<>>
    /\ UNCHANGED <<recording, stream, audio_queue, tagVars>>
    /\ CaptureUnchanged

\* get_audio_buffer(duration): one pass of its loop that gets a chunk
CaptureGetBufferTake ==
    /\ pc = "get_buffer"
    /\ Len(speech_audio) < BufferChunks
    /\ audio_queue # <<>>
    /\ speech_audio' = Append(speech_audio, QueueGet(audio_queue))
    /\ returned' = Append(returned, QueueGet(audio_queue).n)
    /\ audio_queue' = QueueRest(audio_queue)
    /\ UNCHANGED <<recording, stream, pc, produced>>
    /\ CaptureUnchanged

\* get_audio_buffer(duration): enough samples, or duration * 2 elapsed
CaptureGetBufferReturn ==
    /\ pc = "get_buffer"
    /\ pc' = "main"
    /\ speech_audio' = <<>>
    /\ UNCHANGED <<recording, stream, audio_queue, tagVars>>
    /\ CaptureUnchanged

\* clear_buffer() called by the consumer
CaptureClear ==
    /\ pc = "main"
    /\ ClearBuffer
    /\ UNCHANGED <<recording, stream, pc, speech_audio, tagVars>>
    /\ CaptureUnchanged

\* clear_buffer(): the test of its while loop, after `removed` chunks
ClearLoopContinues_OneChunk(queue, removed) == queue # <<>> /\ removed = 0

ClearLoopContinues(queue, removed) == queue # <<>>

SignalOps == {"pause_audio_capture", "resume_audio_capture"}

\* _pause_audio_capture() / _resume_audio_capture() called: the recording test
SignalCall(signal) ==
    /\ pc = "main"
    /\ fn_call' = [op |-> signal, was_recording |-> recording,
                   upto |-> produced, removed |-> 0]
    /\ pc' = IF recording THEN "clear_buffer" ELSE "main"
    /\ UNCHANGED <<recording, stream, audio_queue, speech_audio, tagVars,
                   ignore_audio_until, gpt_history, fn_result, moreVars>>
    /\ UNCHANGED <<vadVars, cmVars, running, audio_chunk, playing, exc,
                   obsVars, now>>

\* clear_buffer(): one pass of its loop, get_nowait()
SignalClearStep ==
    /\ pc = "clear_buffer"
    /\ ClearLoopContinues(audio_queue, fn_call.removed)
    /\ audio_queue' = QueueRest(audio_queue)
    /\ fn_call' = [fn_call EXCEPT !.removed = @ + 1]
    /\ UNCHANGED <<pc, recording, stream, speech_audio, tagVars,
                   ignore_audio_until, gpt_history, fn_result, moreVars>>
    /\ UNCHANGED <<vadVars, cmVars, running, audio_chunk, playing, exc,
                   obsVars, now>>

\* clear_buffer() returns and the handler sets _ignore_audio_until
SignalReturn ==
    /\ pc = "clear_buffer"
    /\ ~ClearLoopContinues(audio_queue, fn_call.removed)
    /\ pc' = "main"
    /\ ignore_audio_until' = IF fn_call.op = "pause_audio_capture"
                             THEN GuardUntil(now) ELSE 0
    /\ UNCHANGED <<recording, stream, audio_queue, speech_audio, tagVars,
                   clientVars, moreVars>>
    /\ UNCHANGED <<vadVars, cmVars, running, audio_chunk, playing, exc,
                   obsVars, now>>

NextCapture ==
    \/ \E signal \in SignalOps : SignalCall(signal)
    \/ SignalClearStep
    \/ SignalReturn
    \/ \E outcome \in StartOutcomes : CaptureStart(outcome)
    \/ CaptureStop
    \/ \E frames \in AgentChunkFrames : CaptureProduce(frames)
    \/ CaptureGetChunk
    \/ CaptureGetBufferCall
    \/ CaptureGetBufferTake
    \/ CaptureGetBufferReturn
    \/ CaptureClear

SpecCapture == Init /\ [][NextCapture]_vars

(***************************************************************************)
(* The blocking waits: get_audio_chunk, get_audio_buffer and               *)
(* wait_for_playback_complete, with the producer thread, the player and    *)
(* the clock running beside the waiting thread.  A chunk is one unit of    *)
(* time of audio.                                                          *)
(***************************************************************************)
\* get_audio_buffer: the test of its while loop
BufferLoopContinues_NoDeadline(collected, expected, elapsed, duration) ==
    collected < expected

BufferLoopContinues(collected, expected, elapsed, duration) ==
    collected < expected /\ elapsed < duration * 2

\* wait_for_playback_complete: the test of its while loop
PlaybackLoopContinues(is_playing, elapsed, timeout) ==
    is_playing /\ elapsed < timeout

WaitFrame ==
    UNCHANGED <<vadVars, cmVars, running, ignore_audio_until, audio_chunk,
                playing, exc, obsVars, stream, recording, gpt_history, files,
                cm_context>>

\* get_audio_chunk(timeout): Queue.get(timeout=timeout) begins
WaitGetAudioChunkCall(timeout) ==
    /\ pc = "main"
    /\ now + timeout <= MaxTime
    /\ pc' = "get_chunk"
    /\ fn_call' = [op |-> "get_audio_chunk", start |-> now, timeout |-> timeout]
    /\ fn_result' = NoFn
    /\ UNCHANGED <<speech_audio, audio_queue, tagVars, playback_playing, sd_playing, now>>
    /\ WaitFrame

\* get_audio_chunk(timeout): a chunk is there, or Empty is raised at the
\* end of the timeout and None returned
WaitGetAudioChunkReturn ==
    /\ pc = "get_chunk"
    /\ audio_queue # <<>> \/ now - fn_call.start >= fn_call.timeout
    /\ pc' = "main"
    /\ IF audio_queue # <<>>
       THEN /\ fn_result' = [value |-> "chunk"]
            /\ returned' = Append(returned, QueueGet(audio_queue).n)
            /\ audio_queue' = QueueRest(audio_queue)
       ELSE /\ fn_result' = [value |-> "None"]
            /\ UNCHANGED <<returned, audio_queue>>
    /\ UNCHANGED <<speech_audio, produced, fn_call, playback_playing, sd_playing, now>>
    /\ WaitFrame

\* get_audio_buffer(duration): the recording test and the start of the loop
WaitGetAudioBufferCall(duration) ==
    /\ pc = "main"
    /\ now + duration * 2 <= MaxTime
    /\ fn_call' = [op |-> "get_audio_buffer", start |-> now, timeout |-> duration]
    /\ IF recording
       THEN /\ pc' = "get_buffer"
            /\ fn_result' = NoFn
       ELSE /\ pc' = "main"
            /\ fn_result' = [value |-> "None"]
    /\ speech_audio' = <<>>
    /\ UNCHANGED <<audio_queue, tagVars, playback_playing, sd_playing, now>>
    /\ WaitFrame

\* get_audio_buffer(duration): a pass of the loop whose get_audio_chunk(0.1)
\* gets a chunk (a pass that times out changes nothing but the time)
WaitGetAudioBufferTake ==
    /\ pc = "get_buffer"
    /\ BufferLoopContinues(Len(speech_audio), fn_call.timeout,
                           now - fn_call.start, fn_call.timeout)
    /\ audio_queue # <<>>
    /\ speech_audio' = Append(speech_audio, QueueGet(audio_queue))
    /\ returned' = Append(returned, QueueGet(audio_queue).n)
    /\ audio_queue' = QueueRest(audio_queue)
    /\ UNCHANGED <<pc, produced, fn_call, fn_result, playback_playing, sd_playing, now>>
    /\ WaitFrame

\* get_audio_buffer(duration): the loop has ended
WaitGetAudioBufferReturn ==
    /\ pc = "get_buffer"
    /\ ~BufferLoopContinues(Len(speech_audio), fn_call.timeout,
                            now - fn_call.start, fn_call.timeout)
    /\ pc' = "main"
    /\ fn_result' = [value |-> IF speech_audio = <<>> THEN "None" ELSE "buffer"]
    /\ speech_audio' = <<>>
    /\ UNCHANGED <<audio_queue, tagVars, fn_call, playback_playing, sd_playing, now>>
    /\ WaitFrame

\* play_audio_data(audio_data, blocking=False) on another thread
PlayAudioData ==
    /\ playback_playing' = TRUE
    /\ sd_playing' = TRUE
    /\ UNCHANGED <<pc, speech_audio, audio_queue, tagVars, fn_call, fn_result, now>>
    /\ WaitFrame

\* stop_playback() on another thread
StopPlayback ==
    /\ playback_playing' = FALSE
    /\ sd_playing' = FALSE
    /\ UNCHANGED <<pc, speech_audio, audio_queue, tagVars, fn_call, fn_result, now>>
    /\ WaitFrame

\* wait_for_playback_complete(timeout) begins
WaitForPlaybackCall(timeout) ==
    /\ pc = "main"
    /\ now + timeout <= MaxTime
    /\ pc' = "wait_playback"
    /\ fn_call' = [op |-> "wait_for_playback_complete", start |-> now,
                   timeout |-> timeout]
    /\ fn_result' = NoFn
    /\ UNCHANGED <<speech_audio, audio_queue, tagVars, playback_playing, sd_playing, now>>
    /\ WaitFrame

\* wait_for_playback_complete(timeout): the loop has ended
WaitForPlaybackReturn ==
    /\ pc = "wait_playback"
    /\ ~PlaybackLoopContinues(playback_playing, now - fn_call.start,
                              fn_call.timeout)
    /\ pc' = "main"
    /\ fn_result' = [value |-> IF playback_playing THEN "False" ELSE "True",
                     finished |-> ~sd_playing]
    /\ UNCHANGED <<speech_audio, audio_queue, tagVars, fn_call, playback_playing, sd_playing, now>>
    /\ WaitFrame

\* time passes while a thread waits
WaitTick ==
    /\ pc # "main"
    /\ Tick
    /\ UNCHANGED <<pc, speech_audio, audio_queue, tagVars, fn_call, fn_result,
                   playback_playing, sd_playing>>
    /\ WaitFrame

NextWait ==
    \/ \E outcome \in StartOutcomes : CaptureStart(outcome)
    \/ CaptureStop
    \/ CaptureProduce(<<TRUE, TRUE, TRUE>>)
    \/ \E timeout \in 0..MaxWait : WaitGetAudioChunkCall(timeout)
    \/ WaitGetAudioChunkReturn
    \/ \E duration \in 1..MaxWait : WaitGetAudioBufferCall(duration)
    \/ WaitGetAudioBufferTake
    \/ WaitGetAudioBufferReturn
    \/ PlayAudioData
    \/ StopPlayback
    \/ \E timeout \in 0..MaxWait : WaitForPlaybackCall(timeout)
    \/ WaitForPlaybackReturn
    \/ WaitTick

\* The clock does not stop, and a thread whose wait can return is scheduled.
SpecWait ==
    /\ Init
    /\ [][NextWait]_vars
    /\ WF_vars(WaitTick)
    /\ WF_vars(WaitGetAudioChunkReturn)
    /\ WF_vars(WaitGetAudioBufferReturn)
    /\ WF_vars(WaitForPlaybackReturn)

(***************************************************************************)
(* _process_speech and process_audio_input, step by step, with the files   *)
(* they write.  "captured" is recordings/captured_<timestamp>.wav,         *)
(* "temp_wav" the NamedTemporaryFile of process_audio_input, "whisper_wav" *)
(* the one of transcribe_audio_data, "reply" the synthesized audio.        *)
(***************************************************************************)
TurnCall == [op |-> "process_audio_input", captured |-> "none",
             temp |-> "none", transcription |-> FALSE, gate |-> FALSE,
             generation |-> FALSE]

TurnFrame ==
    UNCHANGED <<vadVars, captureVars, running, ignore_audio_until, audio_chunk,
                speech_audio, playing, exc, stop_recording_calls,
                stop_conversation_calls, last_call, stream, tagVars,
                gpt_history, playback_playing, sd_playing, session_start_time,
                callbacks_set, cm_context, now>>

\* start_conversation() before the turns
TurnStartConversation ==
    /\ pc = "main"
    /\ ~is_active
    /\ StartConversation
    /\ UNCHANGED <<pc, cm_result, turn_log, fn_call, fn_result, files,
                   callbacks_set>>
    /\ UNCHANGED <<vadVars, captureVars, running, ignore_audio_until,
                   audio_chunk, speech_audio, playing, exc,
                   stop_recording_calls, stop_conversation_calls, last_call,
                   stream, tagVars, gpt_history, playback_playing, sd_playing, cm_context,
                   now>>

\* _process_speech calls process_audio_input: the is_active test and the
\* activity time
TurnBegin ==
    /\ pc = "main"
    /\ fn_call' = TurnCall
    /\ fn_result' = NoFn
    /\ turn_log' = <<>>
    /\ cm_result' = "None"
    /\ IF is_active
       THEN /\ last_activity_time' = now
            /\ pc' = "save_captured"
       ELSE /\ pc' = "turn_returned"
            /\ UNCHANGED last_activity_time
    /\ UNCHANGED <<is_active, conversation_history, files>>
    /\ TurnFrame

\* where process_audio_input goes when _save_audio_to_wav has raised: the
\* exception is raised again by _save_audio_to_wav and caught by the except
\* block of process_audio_input
AfterSaveFailed == "turn_returned"

\* recordings_dir.mkdir and _save_audio_to_wav(..., input_audio_file)
TurnSaveCaptured(saved) ==
    /\ pc = "save_captured"
    /\ fn_call' = [fn_call EXCEPT !.captured = IF saved THEN "ok" ELSE "fail"]
    /\ IF saved
       THEN /\ files' = files \cup {"captured"}
            /\ pc' = "save_temp"
            /\ UNCHANGED cm_result
       ELSE /\ pc' = AfterSaveFailed
            /\ cm_result' = CaughtResult
            /\ UNCHANGED files
    /\ UNCHANGED <<is_active, conversation_history, last_activity_time,
                   turn_log, fn_result>>
    /\ TurnFrame

\* NamedTemporaryFile(suffix=".wav", delete=False) and
\* _save_audio_to_wav(..., temp_audio_file)
TurnSaveTemp(saved) ==
    /\ pc = "save_temp"
    /\ fn_call' = [fn_call EXCEPT !.temp = IF saved THEN "ok" ELSE "fail"]
    /\ files' = files \cup {"temp_wav"}
    /\ IF saved
       THEN /\ pc' = "transcribe"
            /\ UNCHANGED cm_result
       ELSE /\ pc' = AfterSaveFailed
            /\ cm_result' = CaughtResult
    /\ UNCHANGED <<is_active, conversation_history, last_activity_time,
                   turn_log, fn_result>>
    /\ TurnFrame

\* transcribe_speech_segment: transcribe_audio_data writes its own
\* temporary file and unlinks it in its finally block
TurnTranscribe(stt) ==
    /\ pc = "transcribe"
    /\ fn_call' = [fn_call EXCEPT !.transcription = TRUE]
    /\ files' = (files \cup {"whisper_wav"}) \ {"whisper_wav"}
    /\ IF TranscribedOf(stt) = "text"
       THEN /\ pc' = "respond"
            /\ UNCHANGED cm_result
       ELSE /\ pc' = "turn_returned"
            /\ cm_result' = IF TranscribedOf(stt) = "error" THEN CaughtResult
                             ELSE "None"
    /\ UNCHANGED <<is_active, conversation_history, last_activity_time,
                   turn_log, fn_result>>
    /\ TurnFrame

\* the user message, the gate, the generation and the synthesis;
\* synthesize_text leaves the reply in a NamedTemporaryFile(delete=False)
TurnRespond(should_respond, chat, tts) ==
    /\ pc = "respond"
    /\ RespondTo("utterance", should_respond, GenOf(chat), TtsOf(tts))
    /\ fn_call' = [fn_call EXCEPT !.gate = TRUE, !.generation = should_respond]
    /\ files' = IF cm_result' = "audio_file" THEN files \cup {"reply"} ELSE files
    /\ pc' = "turn_returned"
    /\ UNCHANGED <<is_active, last_activity_time, fn_result>>
    /\ TurnFrame

\* _process_speech after process_audio_input has returned: the reply is
\* played (inject_audio_file or afplay, which catch their own exceptions)
\* and unlinked; a cancellation during the playback skips the unlink
TurnFinish(cancelled) ==
    /\ pc = "turn_returned"
    /\ pc' = "main"
    /\ fn_result' = [value |-> cm_result]
    /\ files' = IF cm_result = "audio_file" /\ ~cancelled
                THEN files \ {"reply"} ELSE files
    /\ turn_log' = IF cm_result = "audio_file"
                   THEN Append(turn_log, IF cancelled THEN "cancelled" ELSE "played")
                   ELSE turn_log
    /\ UNCHANGED <<is_active, conversation_history, last_activity_time,
                   cm_result, fn_call>>
    /\ TurnFrame

NextTurn ==
    \/ TurnStartConversation
    \/ TurnBegin
    \/ \E saved \in BOOLEAN : TurnSaveCaptured(saved)
    \/ \E saved \in BOOLEAN : TurnSaveTemp(saved)
    \/ \E stt \in WhisperBackend : TurnTranscribe(stt)
    \/ \E should_respond \in BOOLEAN, chat \in ChatBackend \cup {"local_error"},
          tts \in TtsBackend \cup {"local_error"} :
            TurnRespond(should_respond, chat, tts)
    \/ \E cancelled \in BOOLEAN : TurnFinish(cancelled)

SpecTurn == Init /\ [][NextTurn]_vars

(***************************************************************************)
(* GPTClient.should_respond                                                *)
(***************************************************************************)
\* Strings are sequences of characters.  "N" is the one upper-case letter.
Chars == {"h", "i", "s", "N", " ", "?"}
Letters == Chars \ {" ", "?"}
TextsUpTo(n) == UNION {[1..k -> Chars] : k \in 0..n}

\* str.lower()
Lower(c) == IF c = "N" THEN "n" ELSE c
LowerStr(str) == [k \in 1..Len(str) |-> Lower(str[k])]

\* sub in str
Contains(sub, str) ==
    \E k \in 0..(Len(str) - Len(sub)) : SubSeq(str, k + 1, k + Len(sub)) = sub

\* not str.strip()
IsBlank(str) == \A k \in 1..Len(str) : str[k] = " "

\* len(str.split())
WordCount(str) ==
    Cardinality({k \in 1..Len(str) : str[k] # " " /\ (k = 1 \/ str[k - 1] = " ")})

\* the agent names: Config.AGENT_NAME, read by GPTClient.__init__, and the
\* agent_name of the session's ConversationContext
AgentNames == {<<"N">>, <<"s", "i">>}

question_indicators ==
    {<<"?">>, <<"w", "h", "a", "t">>, <<"h", "o", "w">>, <<"w", "h", "y">>,
     <<"w", "h", "e", "n">>, <<"w", "h", "e", "r", "e">>, <<"w", "h", "o">>,
     <<"c", "a", "n", " ", "y", "o", "u">>}
greetings ==
    {<<"h", "e", "l", "l", "o">>, <<"h", "i">>, <<"h", "e", "y">>,
     <<"g", "o", "o", "d", " ", "m", "o", "r", "n", "i", "n", "g">>,
     <<"g", "o", "o", "d", " ", "a", "f", "t", "e", "r", "n", "o", "o", "n">>}

\* the fewest words of a text that is answered without any cue
MinWords == 3

\* should_respond(text, context) of a client whose agent_name is self_agent_name
ShouldRespond(text, context, self_agent_name) ==
    LET text_lower == LowerStr(text)
        agent_name_lower == LowerStr(self_agent_name) IN
    IF IsBlank(text) THEN FALSE
    ELSE IF Contains(agent_name_lower, text_lower) THEN TRUE
    ELSE IF \E indicator \in question_indicators : Contains(indicator, text_lower)
    THEN TRUE
    ELSE IF \E greeting \in greetings : Contains(greeting, text_lower) THEN TRUE
    ELSE IF WordCount(text) < MinWords THEN FALSE
    ELSE TRUE

\* the gate as process_audio_input / process_text_input call it: the context
\* carries the session's agent_name
CallShouldRespond(text, config_name, session_name) ==
    /\ fn_call' = [op |-> "should_respond", text |-> text,
                   config_name |-> config_name, session_name |-> session_name]
    /\ fn_result' = [value |-> ShouldRespond(text, [agent_name |-> session_name],
                                             config_name)]
    /\ UNCHANGED <<vadVars, captureVars, cmVars, agentVars, obsVars, stream,
                   tagVars, gpt_history, moreVars, now>>

\* one client, one call
NextGate ==
    /\ fn_call = NoFn
    /\ \E text \in TextsUpTo(MaxTextLen), config_name \in AgentNames,
          session_name \in AgentNames :
           CallShouldRespond(text, config_name, session_name)

SpecGate == Init /\ [][NextGate]_vars

(***************************************************************************)
(* TTSClient.split_text_for_synthesis                                      *)
(***************************************************************************)
SplitChars == {"a", ".", "?", " "}
SplitTexts(n) == UNION {[1..k -> SplitChars] : k \in 0..n}

\* text.replace('!', '.').replace('?', '.')
ReplaceMarks(str) ==
    [k \in 1..Len(str) |-> IF str[k] \in {"!", "?"} THEN "." ELSE str[k]]

\* str.split(sep)
RECURSIVE SplitOn(_, _)
SplitOn(str, sep) ==
    IF \A k \in 1..Len(str) : str[k] # sep
    THEN <<str>>
    ELSE LET k == CHOOSE i \in 1..Len(str) :
                     str[i] = sep /\ \A j \in 1..(i - 1) : str[j] # sep
         IN <<SubSeq(str, 1, k - 1)>> \o SplitOn(SubSeq(str, k + 1, Len(str)), sep)

\* str.strip()
RECURSIVE Strip(_)
Strip(str) ==
    IF str = <<>> THEN str
    ELSE IF Head(str) = " " THEN Strip(Tail(str))
    ELSE IF str[Len(str)] = " " THEN Strip(SubSeq(str, 1, Len(str) - 1))
    ELSE str

\* the for loop over the sentences, and the final chunk
RECURSIVE PackSentences(_, _, _, _)
PackSentences(sentences, current_chunk, chunks, max_length) ==
    IF sentences = <<>>
    THEN IF current_chunk # <<>> THEN Append(chunks, current_chunk) ELSE chunks
    ELSE LET sentence == Strip(Head(sentences))
             test_chunk == IF current_chunk # <<>>
                           THEN current_chunk \o <<".", " ">> \o sentence
                           ELSE sentence
         IN IF sentence = <<>>
            THEN PackSentences(Tail(sentences), current_chunk, chunks, max_length)
            ELSE IF Len(test_chunk) <= max_length
            THEN PackSentences(Tail(sentences), test_chunk, chunks, max_length)
            ELSE PackSentences(Tail(sentences), sentence,
                               IF current_chunk # <<>>
                               THEN Append(chunks, current_chunk) ELSE chunks,
                               max_length)

\* the simple split by character count
SliceFixed(text, max_length) ==
    [i \in 1..((Len(text) + max_length - 1) \div max_length) |->
        SubSeq(text, (i - 1) * max_length + 1, Min(i * max_length, Len(text)))]

\* split_text_for_synthesis(text, max_length, preserve_sentences)
SplitTextForSynthesis(text, max_length, preserve_sentences) ==
    IF Len(text) <= max_length THEN <<text>>
    ELSE IF preserve_sentences
    THEN PackSentences(SplitOn(ReplaceMarks(text), "."), <<>>, <<>>, max_length)
    ELSE SliceFixed(text, max_length)

CallSplitTextForSynthesis(text, max_length, preserve_sentences) ==
    /\ fn_call' = [op |-> "split_text_for_synthesis", text |-> text,
                   max_length |-> max_length,
                   preserve_sentences |-> preserve_sentences]
    /\ fn_result' = [value |-> SplitTextForSynthesis(text, max_length,
                                                     preserve_sentences)]
    /\ UNCHANGED <<vadVars, captureVars, cmVars, agentVars, obsVars, stream,
                   tagVars, gpt_history, moreVars, now>>

\* one client, one call
NextSplit ==
    /\ fn_call = NoFn
    /\ \E text \in SplitTexts(MaxSplitLen), max_length \in 1..MaxChunkLen,
          preserve_sentences \in BOOLEAN :
           CallSplitTextForSynthesis(text, max_length, preserve_sentences)

SpecSplit == Init /\ [][NextSplit]_vars

(***************************************************************************)
(* The three clients driven by an arbitrary caller                         *)
(***************************************************************************)
\* transcribe_speech_segment(audio_data, sample_rate) on a buffer of
\* `samples` samples: the WAV file is written and sent whatever its length
WhisperCall(samples, backend) ==
    [value |-> TranscribeSpeechSegment(backend), requests |-> 1]

\* synthesize_text(text)
TtsCall(text, backend) ==
    IF IsBlank(text)
    THEN [value |-> "none", requests |-> 0]
    ELSE [value |-> SynthesizeText(backend), requests |-> 1]

\* the messages of the n-th successful exchange
NextExchange(h) == IF h = <<>> THEN 1 ELSE h[Len(h)].n + 1
UserEntry(n) == [role |-> "user", n |-> n]
AssistantEntry(n) == [role |-> "assistant", n |-> n]

\* generate_response: the history after a reply has been appended
TrimHistory(h) ==
    IF Len(h) > MaxConversationHistory * 2
    THEN SubSeq(h, Len(h) - MaxConversationHistory + 1, Len(h))
    ELSE h

ClientUnchanged ==
    UNCHANGED <<vadVars, captureVars, cmVars, agentVars, obsVars, stream,
                tagVars, moreVars, now>>

\* _build_conversation_messages: the entries of the rolling history that go
\* into the request, between the system prompt and the current input
RecentWindow == 6
IsExchangeEntry(msg) == msg.role \in {"user", "assistant"}
RecentHistory(h) ==
    SelectSeq(SubSeq(h, Max(1, Len(h) - RecentWindow + 1), Len(h)),
              IsExchangeEntry)

\* ConversationManager.start_conversation, with the GPT client it owns
ClientStartConversation_ClearsClient ==
    /\ StartConversation
    /\ gpt_history' = <<>>
    /\ fn_call' = [op |-> "start_conversation", before |-> gpt_history]
    /\ fn_result' = NoFn
    /\ UNCHANGED <<vadVars, captureVars, callbacks_set, cm_result, agentVars,
                   obsVars, stream, tagVars, moreVars, now>>

ClientStartConversation ==
    /\ StartConversation
    /\ UNCHANGED gpt_history
    /\ fn_call' = [op |-> "start_conversation", before |-> gpt_history]
    /\ fn_result' = NoFn
    /\ UNCHANGED <<vadVars, captureVars, callbacks_set, cm_result, agentVars,
                   obsVars, stream, tagVars, moreVars, now>>

CallTranscribeSpeechSegment(samples, backend) ==
    /\ fn_call' = [op |-> "transcribe_speech_segment", samples |-> samples]
    /\ fn_result' = WhisperCall(samples, backend)
    /\ UNCHANGED gpt_history
    /\ ClientUnchanged

CallSynthesizeText(text, backend) ==
    /\ fn_call' = [op |-> "synthesize_text", text |-> text]
    /\ fn_result' = TtsCall(text, backend)
    /\ UNCHANGED gpt_history
    /\ ClientUnchanged

\* generate_response(user_input, context)
CallGenerateResponse(backend) ==
    /\ NextExchange(gpt_history) <= MaxExchanges
    /\ fn_call' = [op |-> "generate_response", before |-> gpt_history,
                   window |-> RecentHistory(gpt_history),
                   first |-> (fn_call.op = "start_conversation")]
    /\ fn_result' = [value |-> GptGenerateResponse(backend), requests |-> 1]
    /\ gpt_history' =
          IF backend = "reply"
          THEN TrimHistory(gpt_history \o
                   <<UserEntry(NextExchange(gpt_history)),
                     AssistantEntry(NextExchange(gpt_history))>>)
          ELSE gpt_history
    /\ ClientUnchanged

\* clear_history()
CallClearHistory ==
    /\ gpt_history' = <<>>
    /\ fn_call' = [op |-> "clear_history", before |-> gpt_history]
    /\ fn_result' = NoFn
    /\ ClientUnchanged

NextClients ==
    \/ \E samples \in 0..MaxSamples, backend \in WhisperBackend :
          CallTranscribeSpeechSegment(samples, backend)
    \/ \E text \in SplitTexts(MaxChunkLen), backend \in TtsBackend :
          CallSynthesizeText(text, backend)
    \/ \E backend \in ChatBackend : CallGenerateResponse(backend)
    \/ CallClearHistory
    \/ ClientStartConversation

SpecClients == Init /\ [][NextClients]_vars

(***************************************************************************)
(* detect_speech on one buffer                                             *)
(***************************************************************************)
MaxDetectFrames == 10

BoolStr(b) == IF b THEN "True" ELSE "False"

\* detect_speech(audio_data): frame_results are the classifications of the
\* frames the buffer was split into
CallDetectSpeech(frame_results) ==
    /\ fn_call' = [op |-> "detect_speech", frame_results |-> frame_results]
    /\ fn_result' = [value |-> BoolStr(DetectSpeech(frame_results))]
    /\ UNCHANGED gpt_history
    /\ ClientUnchanged

NextDetect ==
    /\ fn_call = NoFn
    /\ \E frame_results \in FrameSeqs(MaxDetectFrames) :
          CallDetectSpeech(frame_results)

SpecDetect == Init /\ [][NextDetect]_vars

(***************************************************************************)
(* _update_recent_topics on one exchange                                   *)
(***************************************************************************)
MaxExchangeWords == 4

WordSeqs(n) == UNION {[1..k -> ExchangeWords] : k \in 0..n}

\* recent_topics as a session can hold them before an exchange: up to ten
\* distinct words, with or without a word the exchange can bring
OldTopics == <<"t01", "t02", "t03", "t04", "t05", "t06", "t07", "t08", "t09",
               "t10">>
TopicStarts ==
    {SubSeq(OldTopics, 1, n) : n \in 0..MaxTopics} \cup
    {<<"plan">> \o SubSeq(OldTopics, 1, n) : n \in 0..(MaxTopics - 1)}

\* _generate_response calls _update_recent_topics(input_text, response_text)
CallUpdateRecentTopics(topics, words) ==
    /\ fn_call' = [op |-> "update_recent_topics", topics |-> topics,
                   words |-> words]
    /\ fn_result' = NoFn
    /\ cm_context' = [cm_context EXCEPT
                         !.recent_topics = UpdateRecentTopics(topics, words)]
    /\ UNCHANGED <<vadVars, captureVars, cmVars, agentVars, obsVars, stream,
                   tagVars, gpt_history, playback_playing, sd_playing, files, now>>

NextTopics ==
    /\ fn_call = NoFn
    /\ \E topics \in TopicStarts, words \in WordSeqs(MaxExchangeWords) :
          CallUpdateRecentTopics(topics, words)

SpecTopics == Init /\ [][NextTopics]_vars

(***************************************************************************)
(* Sessions of a ConversationManager and its context                       *)
(***************************************************************************)
\* what the session actions leave alone; capture is not recording, so the
\* pause / resume handlers change nothing when they are called
SessionFrame ==
    UNCHANGED <<vadVars, captureVars, agentVars, obsVars, stream, tagVars,
                gpt_history, playback_playing, sd_playing, files, callbacks_set>>

\* start_conversation(context): None, or the context main.py builds
ContextArgs ==
    {[given |-> FALSE, value |-> DefaultContext],
     [given |-> TRUE,
      value |-> [meeting_title |-> "Google Meet AI Agent Session",
                 recent_topics |-> <<>>]]}

SessionStartConversation(arg) ==
    /\ StartConversation
    /\ cm_context' = IF arg.given THEN arg.value ELSE cm_context
    /\ cm_result' = "None"
    /\ fn_call' = [op |-> "start_conversation", given |-> arg.given,
                   context |-> cm_context]
    /\ fn_result' = NoFn
    /\ UNCHANGED now
    /\ SessionFrame

SessionStopConversation ==
    /\ Len(conversation_history) < MaxMessages
    /\ StopConversation
    /\ cm_result' = "None"
    /\ fn_call' = [op |-> "stop_conversation"]
    /\ fn_result' = NoFn
    /\ UNCHANGED <<cm_context, now>>
    /\ SessionFrame

SessionIsConversationActive ==
    /\ Len(conversation_history) < MaxMessages
    /\ IsConversationActive
    /\ fn_call' = [op |-> "is_conversation_active"]
    /\ fn_result' = NoFn
    /\ UNCHANGED <<cm_context, now>>
    /\ SessionFrame

\* set_audio_capture_callback(pause_callback, resume_callback)
SessionSetCallbacks ==
    /\ callbacks_set' = TRUE
    /\ fn_call' = [op |-> "set_audio_capture_callback"]
    /\ fn_result' = NoFn
    /\ UNCHANGED <<vadVars, captureVars, agentVars, obsVars, stream, tagVars,
                   gpt_history, playback_playing, sd_playing, files, is_active,
                   conversation_history, last_activity_time,
                   session_start_time, cm_result, cm_context, now>>

\* the words of the exchanges of a session
SessionWords == {<<"plan">>, <<"the", "Plan", "team">>}
TurnOps == {"process_audio_input", "process_text_input"}

\* process_audio_input / process_text_input, the whole call with its effect
\* on the context: _generate_response updates the topics after it has added
\* the reply to the history
SessionTurn_TopicsAlways(op, transcribed, should_respond, gen, tts, words) ==
    /\ IF op = "process_audio_input"
       THEN ProcessAudioInputCall(transcribed, "utterance", should_respond,
                                  gen, tts)
       ELSE ProcessTextInput("utterance", should_respond, gen, tts)
    /\ cm_context' =
          IF is_active
          THEN [cm_context EXCEPT
                   !.recent_topics = UpdateRecentTopics(@, words)]
          ELSE cm_context
    /\ fn_call' = [op |-> op, was_active |-> is_active,
                   transcribed |-> transcribed,
                   history |-> conversation_history, context |-> cm_context,
                   last_activity_time |-> last_activity_time,
                   ignore_audio_until |-> ignore_audio_until]
    /\ fn_result' = NoFn
    /\ UNCHANGED <<vadVars, captureVars, agentVars, stop_recording_calls,
                   stop_conversation_calls, last_call, stream, tagVars,
                   gpt_history, playback_playing, sd_playing, files, callbacks_set, now>>

SessionTurn(op, transcribed, should_respond, gen, tts, words) ==
    /\ IF op = "process_audio_input"
       THEN ProcessAudioInputCall(transcribed, "utterance", should_respond,
                                  gen, tts)
       ELSE ProcessTextInput("utterance", should_respond, gen, tts)
    /\ cm_context' =
          IF /\ is_active
             /\ (op = "process_audio_input" => transcribed = "text")
             /\ should_respond
             /\ gen = "text"
          THEN [cm_context EXCEPT
                   !.recent_topics = UpdateRecentTopics(@, words)]
          ELSE cm_context
    /\ fn_call' = [op |-> op, was_active |-> is_active,
                   transcribed |-> transcribed,
                   history |-> conversation_history, context |-> cm_context,
                   last_activity_time |-> last_activity_time,
                   ignore_audio_until |-> ignore_audio_until]
    /\ fn_result' = NoFn
    /\ UNCHANGED <<vadVars, captureVars, agentVars, stop_recording_calls,
                   stop_conversation_calls, last_call, stream, tagVars,
                   gpt_history, playback_playing, sd_playing, files, callbacks_set, now>>

\* time passes between two calls
SessionTick ==
    /\ now < MaxCallerTime
    /\ Tick
    /\ fn_call' = NoFn
    /\ UNCHANGED <<vadVars, captureVars, cmVars, agentVars, obsVars, stream,
                   tagVars, gpt_history, fn_result, moreVars>>

NextSession ==
    \/ \E arg \in ContextArgs : SessionStartConversation(arg)
    \/ SessionStopConversation
    \/ SessionIsConversationActive
    \/ SessionSetCallbacks
    \/ \E op \in TurnOps, transcribed \in {"text", "empty", "error"},
          should_respond \in BOOLEAN, gen \in {"text", "empty", "error"},
          tts \in {"file", "none"}, words \in SessionWords :
            /\ (transcribed = "text" /\ should_respond /\ gen = "text")
                  \/ (words = <<"plan">> /\ tts = "file")
            /\ SessionTurn(op, transcribed, should_respond, gen, tts, words)
    \/ SessionTick

SpecSession == Init /\ [][NextSession]_vars

(***************************************************************************)
(* AudioPlayback: the playing flag and the output stream                   *)
(***************************************************************************)
PlaybackFrame ==
    /\ UNCHANGED <<speech_audio, audio_queue, tagVars, now>>
    /\ WaitFrame

\* sd.play / sd.stop return, or raise
SdOutcomes == {"ok", "raise"}
\* play_audio_file before it calls play_audio_data: the file does not exist,
\* has no supported suffix, cannot be loaded, or is loaded
LoadOutcomes == {"missing", "unsupported", "load_error", "loaded"}

\* play_audio_data(audio_data, blocking)
PlayAudioDataCall(op, blocking, outcome) ==
    /\ pc = "main"
    /\ playback_playing' = (outcome = "ok" /\ ~blocking)
    /\ sd_playing' = IF outcome = "ok" THEN ~blocking ELSE sd_playing
    /\ fn_call' = [op |-> op, blocking |-> blocking,
                   was_playing |-> playback_playing]
    /\ fn_result' = [value |-> BoolStr(outcome = "ok")]
    /\ UNCHANGED pc
    /\ PlaybackFrame

\* play_audio_file(file_path, blocking)
PlayAudioFileCall(load, blocking, outcome) ==
    IF load = "loaded"
    THEN PlayAudioDataCall("play_audio_file", blocking, outcome)
    ELSE /\ pc = "main"
         /\ fn_call' = [op |-> "play_audio_file", blocking |-> blocking,
                        was_playing |-> playback_playing]
         /\ fn_result' = [value |-> "False"]
         /\ UNCHANGED <<pc, playback_playing, sd_playing>>
         /\ PlaybackFrame

\* the audio of a non-blocking sd.play has been played to its end
PlaybackAudioEnds ==
    /\ sd_playing
    /\ sd_playing' = FALSE
    /\ UNCHANGED <<pc, playback_playing, fn_call, fn_result>>
    /\ PlaybackFrame

\* stop_playback()
StopPlaybackCall(outcome) ==
    /\ pc = "main"
    /\ IF outcome = "ok"
       THEN playback_playing' = FALSE /\ sd_playing' = FALSE
       ELSE UNCHANGED <<playback_playing, sd_playing>>
    /\ fn_call' = [op |-> "stop_playback", was_playing |-> playback_playing]
    /\ fn_result' = NoFn
    /\ UNCHANGED pc
    /\ PlaybackFrame

NextPlayback ==
    \/ \E blocking \in BOOLEAN, outcome \in SdOutcomes :
          PlayAudioDataCall("play_audio_data", blocking, outcome)
    \/ \E load \in LoadOutcomes, blocking \in BOOLEAN, outcome \in SdOutcomes :
          PlayAudioFileCall(load, blocking, outcome)
    \/ PlaybackAudioEnds
    \/ \E outcome \in SdOutcomes : StopPlaybackCall(outcome)
    \/ \E timeout \in 0..MaxWait : WaitForPlaybackCall(timeout)
    \/ WaitForPlaybackReturn
    \/ WaitTick

SpecPlayback == Init /\ [][NextPlayback]_vars

(***************************************************************************)
(* A ConversationManager driven by an arbitrary caller                     *)
(***************************************************************************)
\* The observer's record of a call: the state it was made in, a bit that
\* alternates from call to call, and for a turn what the caller passed and
\* what the backends did.
Call(op) == [op |-> op, was_active |-> is_active,
             idle |-> now - last_activity_time,
             messages |-> Len(conversation_history),
             seq |-> 1 - last_call.seq,
             turn |-> NoTurn]

\* The turns a caller can drive: a stage that is not reached has no outcome.
Turn(stt, text, should_respond, chat, tts) ==
    [stt |-> stt, text |-> text, should_respond |-> should_respond,
     chat |-> chat, tts |-> tts]
\* the transcription gives no text
UntranscribedTurns ==
    {Turn(stt, "none", FALSE, "none", "none") :
        stt \in {"blank", "fail", "local_error"}}
\* the gate says no
UnansweredTurns ==
    {Turn("text", text, FALSE, "none", "none") : text \in Texts}
\* the generation gives no reply
UngeneratedTurns ==
    {Turn("text", text, TRUE, chat, "none") :
        text \in Texts, chat \in {"no_choices", "fail"}}
\* a reply (or the canned apology) goes to the synthesis
SynthesizedTurns ==
    {Turn("text", text, TRUE, chat, tts) :
        text \in Texts, chat \in {"reply", "local_error"},
        tts \in TtsBackend \cup {"local_error"}}
TextTurns == UnansweredTurns \cup UngeneratedTurns \cup SynthesizedTurns
Turns == UntranscribedTurns \cup TextTurns
\* on an inactive session no stage is reached
IdleTurn == Turn("blank", "none", FALSE, "none", "none")

CallerUnchanged ==
    UNCHANGED <<vadVars, captureVars, agentVars, stop_recording_calls,
                stop_conversation_calls, stream, restVars, now>>

CallStartConversation ==
    /\ StartConversation
    /\ cm_result' = "None"
    /\ last_call' = Call("start_conversation")
    /\ UNCHANGED <<callbacks_set, turn_log>>
    /\ CallerUnchanged

CallStopConversation ==
    /\ Len(conversation_history) < MaxMessages
    /\ StopConversation
    /\ cm_result' = "None"
    /\ last_call' = Call("stop_conversation")
    /\ UNCHANGED <<callbacks_set, turn_log>>
    /\ CallerUnchanged

CallIsConversationActive ==
    /\ Len(conversation_history) < MaxMessages
    /\ IsConversationActive
    /\ last_call' = Call("is_conversation_active")
    /\ UNCHANGED <<callbacks_set, turn_log>>
    /\ CallerUnchanged

\* set_audio_capture_callback(pause_callback, resume_callback)
CallSetAudioCaptureCallback ==
    /\ callbacks_set' = TRUE
    /\ last_call' = Call("set_audio_capture_callback")
    /\ UNCHANGED <<is_active, conversation_history, last_activity_time,
                   session_start_time, cm_result, turn_log>>
    /\ CallerUnchanged

CallProcessTextInput(turn) ==
    /\ ProcessTextInput(turn.text, turn.should_respond, GenOf(turn.chat),
                        TtsOf(turn.tts))
    /\ last_call' = [Call("process_text_input") EXCEPT !.turn = turn]
    /\ UNCHANGED callbacks_set
    /\ CallerUnchanged

CallProcessAudioInput(turn) ==
    /\ ProcessAudioInputCall(TranscribedOf(turn.stt), turn.text,
                             turn.should_respond, GenOf(turn.chat),
                             TtsOf(turn.tts))
    /\ last_call' = [Call("process_audio_input") EXCEPT !.turn = turn]
    /\ UNCHANGED callbacks_set
    /\ CallerUnchanged

\* Time passes between two calls: the caller has taken the last call's
\* result, and the observers of that call are blank again.
CallerClockTick ==
    /\ UNCHANGED <<stream, restVars>>
    /\ now < MaxCallerTime
    /\ Tick
    /\ cm_result' = "None"
    /\ turn_log' = <<>>
    /\ last_call' = [NoCall EXCEPT !.seq = last_call.seq]
    /\ UNCHANGED <<is_active, conversation_history, last_activity_time,
                   session_start_time, callbacks_set, stop_recording_calls,
                   stop_conversation_calls, vadVars, captureVars, agentVars>>

NextCM ==
    \/ CallStartConversation
    \/ CallStopConversation
    \/ CallIsConversationActive
    \/ CallSetAudioCaptureCallback
    \/ \E turn \in TextTurns \cup {IdleTurn} :
          (is_active <=> turn # IdleTurn) /\ CallProcessTextInput(turn)
    \/ \E turn \in Turns :
          (is_active \/ turn = IdleTurn) /\ CallProcessAudioInput(turn)
    \/ CallerClockTick

SpecCM == Init /\ [][NextCM]_vars

(***************************************************************************)
(* Properties                                                              *)
(***************************************************************************)
Count(log, e) == Cardinality({i \in 1..Len(log) : log[i] = e})
Before(log, a, b) ==
    \A i \in 1..Len(log) : log[i] = b => \E j \in 1..(i - 1) : log[j] = a

\* C1: in a turn that produces a reply, the pause signal precedes the
\* synthesis, and the resume signal is issued only after the playback of the
\* reply (inject_audio_file, or the afplay fallback) has returned.
C1_ResumeAfterPlayback ==
    /\ \A o \in SynthOutcomes : Before(turn_log, "pause", o)
    /\ cm_result = "audio_file" => Before(turn_log, "play_end", "resume")

\* C2: no chunk captured while the agent's own reply was being played is fed
\* to the VAD or is part of a buffer handed to transcription.
C2_OwnAudioDiscarded ==
    /\ pc \in {"loop_sleep", "get_buffer"} => ~audio_chunk.own
    /\ pc = "process_audio" => \A i \in 1..Len(speech_audio) : ~speech_audio[i].own

C4_ResumeExactlyOnce ==
    /\ Count(turn_log, "resume") <= 1
    /\ Count(turn_log, "pause") > 0 => Before(turn_log, "pause", "resume")
    /\ (pc \notin SynthPcs /\ Count(turn_log, "pause") > 0)
          => Count(turn_log, "resume") = 1

\* C4, its case: the synthesis raised, and the call is over.
C4_Witness ==
    /\ pc = "loop_sleep"
    /\ turn_log = <<"pause", "raise", "resume">>

\* C5: stop_conversation on a session that is already inactive (never
\* started, or just stopped) leaves is_active and the history as they were.
C5_StopIdempotent ==
    [][(CallStopConversation /\ ~is_active)
          => UNCHANGED <<is_active, conversation_history>>]_vars

\* C6: when a run whose conversation loop was left has ended, stop_recording
\* and stop_conversation have each been invoked exactly once.
C6_StoppedExactlyOnce ==
    (pc = "done" /\ exc) =>
        /\ stop_recording_calls = 1
        /\ stop_conversation_calls = 1

\* C7: speech_started is reported only when at least speech_threshold
\* consecutive speech-classified frames have been fed since the VAD was
\* Silent, and once that many have been fed the VAD is Speaking.
C7_FrameDebounce ==
    /\ speech_started => max_frame_run >= speech_threshold
    /\ frame_run >= speech_threshold => is_speaking

C9_TimeoutCheck ==
    [][CallIsConversationActive =>
         /\ (is_active /\ now - last_activity_time > ConversationTimeout)
               => (cm_result' = "False" /\ ~is_active')
         /\ (is_active /\ now - last_activity_time <= ConversationTimeout)
               => (cm_result' = "True" /\
                   UNCHANGED <<is_active, conversation_history,
                               last_activity_time, session_start_time>>)
         /\ ~is_active => (cm_result' = "False" /\ ~is_active')]_vars

\* C9, its case: the last call found an active session idle for too long.
C9_Witness ==
    /\ last_call.op = "is_conversation_active"
    /\ last_call.was_active
    /\ last_call.idle > ConversationTimeout
    /\ cm_result = "False"
    /\ ~is_active

\* C10: start_conversation, in any state, leaves the session active with a
\* history of exactly the session_start marker and both timestamps at the
\* current time.
C10_StartResets ==
    [][CallStartConversation =>
         /\ is_active'
         /\ Len(conversation_history') = 1
         /\ conversation_history'[1] = SystemMsg("session_start")
         /\ session_start_time' = now'
         /\ last_activity_time' = now']_vars

\* C10, its case: the last call restarted an active session that had messages.
C10_Witness ==
    /\ last_call.op = "start_conversation"
    /\ last_call.was_active
    /\ last_call.messages > 1
    /\ last_call.idle > 0
    /\ is_active
    /\ Len(conversation_history) = 1

(***************************************************************************)
(* The history bound                                                       *)
(***************************************************************************)
\* a step that is a call of the caller, and one that is a turn
IsCall == last_call'.seq # last_call.seq
IsTurn ==
    /\ IsCall
    /\ last_call'.op \in {"process_text_input", "process_audio_input"}

IsSystem(msg) == msg.role = "system"
IsNotSystem(msg) == msg.role # "system"
Sys(h) == SelectSeq(h, IsSystem)
NonSys(h) == SelectSeq(h, IsNotSystem)
LastN(s, n) == SubSeq(s, Len(s) - n + 1, Len(s))

\* the messages one turn adds to the history
TurnMessages(text, should_respond, gen) ==
    <<UserMsg(text)>> \o (IF should_respond /\ gen = "text"
                          THEN <<AssistantMsg>> ELSE <<>>)

\* what a turn that adds `added` must leave: the system messages as they
\* were, and the newest MaxHistoryLength of the other messages, in order
KeepsNewest(added) ==
    LET all == NonSys(conversation_history) \o added IN
    /\ Sys(conversation_history') = Sys(conversation_history)
    /\ NonSys(conversation_history') = LastN(all, Min(Len(all), MaxHistoryLength))

\* C11: the history never holds more than max_history_length non-system
\* messages; a turn keeps the system messages and the newest non-system
\* messages, so what is evicted is the oldest non-system messages.
C11_HistoryBounded ==
    /\ [](NonSystemCount(conversation_history) <= MaxHistoryLength)
    /\ [][(IsTurn /\ is_active /\ last_call'.turn.stt = "text")
            => KeepsNewest(TurnMessages(last_call'.turn.text,
                                        last_call'.turn.should_respond,
                                        GenOf(last_call'.turn.chat)))]_vars

\* C11, its case: a turn on a full history added a user message and its
\* reply; the history did not grow and the session_start marker is in place.
C11_Witness ==
    /\ last_call.op = "process_audio_input"
    /\ last_call.was_active
    /\ last_call.messages = MaxHistoryLength + 1
    /\ Len(conversation_history) = MaxHistoryLength + 1
    /\ conversation_history[1] = SystemMsg("session_start")
    /\ conversation_history[Len(conversation_history)] = AssistantMsg
    /\ conversation_history[Len(conversation_history) - 1] = UserMsg("remark")

(***************************************************************************)
(* Failures of the backends, and the gate                                  *)
(***************************************************************************)
BackendFailed(turn) ==
    turn.stt = "fail" \/ turn.chat = "fail" \/ turn.tts = "fail"

C14_UserMessageThenGate ==
    [][(IsTurn /\ is_active /\ last_call'.turn.stt = "text")
          => /\ \E reply \in {<<>>, <<AssistantMsg>>} :
                   KeepsNewest(<<UserMsg(last_call'.turn.text)>> \o reply)
             /\ ~last_call'.turn.should_respond
                   => /\ KeepsNewest(<<UserMsg(last_call'.turn.text)>>)
                      /\ turn_log' = <<>>
                      /\ cm_result' = "None"]_vars

\* C14, its case: a text input on an active session with the signals
\* registered was recorded and the gate said no.
C14_Witness ==
    /\ last_call.op = "process_text_input"
    /\ last_call.was_active
    /\ ~last_call.turn.should_respond
    /\ callbacks_set
    /\ Len(conversation_history) = last_call.messages + 1
    /\ conversation_history[Len(conversation_history)] = UserMsg("remark")
    /\ turn_log = <<>>
    /\ cm_result = "None"

(***************************************************************************)
(* The gate                                                                *)
(***************************************************************************)
\* C15: should_respond is true for every text that contains the agent's
\* name, the agent_name the conversation context supplies for the session,
\* whatever the text's length.
C15_NameAlwaysAnswered ==
    (/\ fn_call.op = "should_respond"
     /\ Contains(fn_call.session_name, fn_call.text))
        => fn_result.value

\* a greeting phrase stands in the text as words of its own
IsGreeting(str) ==
    \E greeting \in greetings :
        \E k \in 0..(Len(str) - Len(greeting)) :
            /\ SubSeq(LowerStr(str), k + 1, k + Len(greeting)) = greeting
            /\ k > 0 => str[k] \notin Letters
            /\ k + Len(greeting) < Len(str) => str[k + Len(greeting) + 1] \notin Letters

\* C16: should_respond is false for every text shorter than 3 words that is
\* not a greeting (here, moreover, only for texts with no question cue and
\* without the agent's name).
C16_ShortTextUnanswered ==
    (/\ fn_call.op = "should_respond"
     /\ WordCount(fn_call.text) < MinWords
     /\ ~IsGreeting(fn_call.text)
     /\ ~\E indicator \in question_indicators :
             Contains(indicator, LowerStr(fn_call.text))
     /\ ~Contains(LowerStr(fn_call.config_name), LowerStr(fn_call.text))
     /\ ~Contains(LowerStr(fn_call.session_name), LowerStr(fn_call.text)))
        => ~fn_result.value

(***************************************************************************)
(* Splitting a reply for synthesis                                         *)
(***************************************************************************)
\* the sentences of a text, in order: what stands between the marks
NonEmpty(str) == str # <<>>
Sentences(str) ==
    SelectSeq([k \in 1..Len(SplitOn(ReplaceMarks(str), ".")) |->
                  Strip(SplitOn(ReplaceMarks(str), ".")[k])], NonEmpty)
RECURSIVE SentencesOfAll(_)
SentencesOfAll(chunks) ==
    IF chunks = <<>> THEN <<>>
    ELSE Sentences(Head(chunks)) \o SentencesOfAll(Tail(chunks))

\* C17: split_text_for_synthesis of a text within the limit is the list of
\* that text alone; of a text over the limit it is at least 2 chunks, none
\* longer than the limit, whose sentences in order are the text's sentences.
C17_SplitRoundTrip ==
    fn_call.op = "split_text_for_synthesis"
        => IF Len(fn_call.text) <= fn_call.max_length
           THEN fn_result.value = <<fn_call.text>>
           ELSE /\ Len(fn_result.value) >= 2
                /\ \A k \in 1..Len(fn_result.value) :
                      Len(fn_result.value[k]) <= fn_call.max_length
                /\ fn_call.preserve_sentences
                      => SentencesOfAll(fn_result.value) = Sentences(fn_call.text)

(***************************************************************************)
(* The clients                                                             *)
(***************************************************************************)
\* C18: an empty audio buffer given to the transcription yields the empty
\* string with no request sent to the speech-to-text backend, and an empty or
\* blank text given to synthesize_text yields None with no request sent to
\* the TTS backend.
C18_EmptyInputShortCircuit ==
    /\ (fn_call.op = "transcribe_speech_segment" /\ fn_call.samples = 0)
          => (fn_result.value = "empty" /\ fn_result.requests = 0)
    /\ (fn_call.op = "synthesize_text" /\ IsBlank(fn_call.text))
          => (fn_result.value = "none" /\ fn_result.requests = 0)

\* C19: the GPT client's rolling history never holds more than
\* MAX_CONVERSATION_HISTORY messages, and what a call drops is the oldest.
C19_RollingHistoryBounded ==
    /\ Len(gpt_history) <= MaxConversationHistory
    /\ \A i, j \in 1..Len(gpt_history) :
          i < j => gpt_history[i].n <= gpt_history[j].n

(***************************************************************************)
(* The signals and the queue                                               *)
(***************************************************************************)
\* C26: when the pause or the resume handler, called with capture recording,
\* has returned, no chunk enqueued before the call is in the queue, whatever
\* the producer thread enqueued meanwhile.
C26_SignalsEmptyQueue ==
    (pc = "main" /\ fn_call.op \in SignalOps /\ fn_call.was_recording)
        => \A i \in 1..Len(audio_queue) : audio_queue[i].n > fn_call.upto

\* C26, its case: the pause handler found two chunks, the producer enqueued
\* while it was clearing, and it has returned.
C26_Witness ==
    /\ pc = "main"
    /\ fn_call.op = "pause_audio_capture"
    /\ fn_call.was_recording
    /\ fn_call.upto >= 2
    /\ fn_call.removed >= 2
    /\ produced > fn_call.upto
    /\ audio_queue # <<>>
    /\ ignore_audio_until = GuardUntil(now)

C25_BufferHoldsUtterance ==
    pc = "process_audio" => \E i \in 1..Len(speech_audio) : speech_audio[i].fed

(***************************************************************************)
(* The files of a turn                                                     *)
(***************************************************************************)
TurnFinished == pc = "main" /\ fn_call.op = "process_audio_input"

\* C22: when a turn has finished, with or without a reply, none of the
\* files written during the turn (the recorded input, the temporary WAV,
\* the synthesized reply) is left.
C22_TurnFilesDeleted ==
    [][(pc = "turn_returned" /\ pc' = "main") => files' = {}]_vars

\* C23: a turn whose recording of the captured input could not be written
\* still requests the transcription.
C23_SaveFailureDoesNotAbort ==
    (TurnFinished /\ fn_call.captured = "fail") => fn_call.transcription

(***************************************************************************)
(* The blocking waits                                                      *)
(***************************************************************************)
WaitingPcs == {"get_chunk", "get_buffer", "wait_playback"}

\* C21: every blocking wait returns: get_audio_chunk, get_audio_buffer and
\* wait_for_playback_complete each come back to their caller, whatever the
\* producer and the player do; get_audio_chunk gives None only once its
\* timeout has elapsed.
C21_WaitsTerminate ==
    /\ \A waiting \in WaitingPcs : (pc = waiting) ~> (pc = "main")
    /\ []((pc = "main" /\ fn_call.op = "get_audio_chunk"
              /\ fn_result = [value |-> "None"])
            => now - fn_call.start >= fn_call.timeout)

\* C21, its case: get_audio_buffer on a recording capture whose producer has
\* delivered nothing returned None when 2 x duration had elapsed.
C21_Witness ==
    /\ pc = "main"
    /\ recording
    /\ produced = 0
    /\ fn_call.op = "get_audio_buffer"
    /\ fn_result = [value |-> "None"]
    /\ now - fn_call.start = fn_call.timeout * 2

(***************************************************************************)
(* The capture queue                                                       *)
(***************************************************************************)
\* C12: the chunks handed to the consumer by get_audio_chunk and
\* get_audio_buffer come in the order in which they were enqueued, each at
\* most once, and a buffer holds its chunks in that order.
C12_QueueOrder ==
    /\ \A i, j \in 1..Len(returned) : i < j => returned[i] < returned[j]
    /\ \A i, j \in 1..Len(speech_audio) :
          i < j => speech_audio[i].n < speech_audio[j].n

\* C12, its case: chunks were enqueued while the consumer was collecting a
\* buffer, after it had got a chunk and dropped another.
C12_Witness ==
    /\ pc = "get_buffer"
    /\ Len(speech_audio) = BufferChunks
    /\ Len(returned) = BufferChunks + 1
    /\ audio_queue # <<>>
    /\ produced > Len(returned) + Len(audio_queue)

\* C20: stop_recording on a capture that is not recording (never started, or
\* already stopped) changes nothing of the capture's state.
C20_StopRecordingIdempotent ==
    [][(CaptureStop /\ ~recording)
          => UNCHANGED <<recording, stream, audio_queue>>]_vars

\* C20, its case: stop_recording has been called on a capture that was
\* recording, and again on the stopped capture with chunks still queued.
C20_Witness ==
    /\ fn_call = [op |-> "stop_recording", was_recording |-> FALSE]
    /\ ~recording
    /\ stream = "none"
    /\ audio_queue # <<>>

\* C27: in update_speech_state calls without an intervening reset_state, a
\* call never reports speech_started and speech_ended together, speech_started
\* is reported exactly by the calls that turn is_speaking on, speech_ended
\* exactly by the calls that turn it off, so the two events alternate,
\* beginning with speech_started (is_speaking is off after construction).
C27_EventsAlternate ==
    [][~VadReset =>
          /\ ~(speech_started' /\ speech_ended')
          /\ speech_started' <=> (~is_speaking /\ is_speaking')
          /\ speech_ended' <=> (is_speaking /\ ~is_speaking')]_vars

C27_Witness ==
    /\ speech_ended
    /\ ~is_speaking
    /\ silence_frames >= silence_threshold

\* C28: whenever start_conversation_loop has returned after having started
\* the session (the callbacks are set right after start_conversation), audio
\* capture is not recording and the conversation session is inactive.
C28_LoopReturnsStopped ==
    (pc = "main_finally" /\ callbacks_set) => (~recording /\ ~is_active)

\* C29: a session ends only in stop_conversation or is_conversation_active.
\* process_audio_input / process_text_input called on a session that is
\* still flagged active but idle for longer than conversation_timeout
\* processes the input as on any active session (the user message enters the
\* history, a reply that is generated and synthesized is returned) and sets
\* last_activity_time to now, so the session is not expired afterwards; the
\* renewal is made even by a turn that aborts before it has a text.
C29_ExpiredSessionRenewed ==
    /\ [][(is_active /\ ~is_active') =>
              (IsCall /\ last_call'.op \in {"stop_conversation",
                                            "is_conversation_active"})]_vars
    /\ [][(/\ IsTurn
           /\ last_call'.was_active
           /\ last_call'.idle > ConversationTimeout) =>
              LET turn == last_call'.turn IN
              /\ is_active'
              /\ last_activity_time' = now'
              /\ now' - last_activity_time' <= ConversationTimeout
              /\ turn.stt = "text" =>
                    KeepsNewest(TurnMessages(turn.text, turn.should_respond,
                                             GenOf(turn.chat)))
              /\ (turn.should_respond /\ turn.chat = "reply"
                                      /\ turn.tts = "audio") =>
                    cm_result' = "audio_file"]_vars

C29_Witness ==
    /\ last_call.op \in {"process_text_input", "process_audio_input"}
    /\ last_call.was_active
    /\ last_call.idle > ConversationTimeout
    /\ cm_result = "audio_file"
    /\ last_activity_time = now

\* C30: start_conversation clears the ConversationManager's history and
\* leaves the GPT client's rolling history as it was, and the generation
\* request that follows it carries that history's newest entries: exchanges
\* of the previous session.
C30_ClientHistorySurvivesStart ==
    /\ fn_call.op = "start_conversation" =>
          /\ gpt_history = fn_call.before
          /\ conversation_history = <<SystemMsg("session_start")>>
    /\ (fn_call.op = "generate_response" /\ fn_call.first) =>
          /\ conversation_history = <<SystemMsg("session_start")>>
          /\ \A i \in 1..Len(fn_call.before) :
                Len(fn_call.before) - i < RecentWindow =>
                   \E j \in 1..Len(fn_call.window) :
                      fn_call.window[j] = fn_call.before[i]

C30_Witness ==
    /\ fn_call.op = "generate_response"
    /\ fn_call.first
    /\ \E j \in 1..Len(fn_call.window) : fn_call.window[j].role = "assistant"

(***************************************************************************)
(* detect_speech                                                           *)
(***************************************************************************)
SpeechFrames(frame_results) ==
    {i \in 1..Len(frame_results) : frame_results[i]}

\* C31: detect_speech returns true exactly when the speech-classified frames
\* are strictly more than 30% of the frames of the buffer; a buffer of
\* non-speech frames only, a buffer at exactly 30% and an empty buffer give
\* false.
C31_ThirtyPercentVote ==
    fn_call.op = "detect_speech" =>
       LET frames == fn_call.frame_results
           speech == Cardinality(SpeechFrames(frames)) IN
       /\ (fn_result.value = "True") <=> (100 * speech > 30 * Len(frames))
       /\ speech = 0 => fn_result.value = "False"
       /\ 100 * speech = 30 * Len(frames) => fn_result.value = "False"
       /\ frames = <<>> => fn_result.value = "False"

C31_Witness ==
    /\ fn_call.op = "detect_speech"
    /\ Len(fn_call.frame_results) = 10
    /\ Cardinality(SpeechFrames(fn_call.frame_results)) = 3
    /\ fn_result.value = "False"

(***************************************************************************)
(* The rolling topics                                                      *)
(***************************************************************************)
Elements(seq) == {seq[i] : i \in 1..Len(seq)}
NoDuplicates(seq) == Cardinality(Elements(seq)) = Len(seq)

\* C38: an exchange on recent_topics of at most 10 distinct entries leaves at
\* most 10 entries and no duplicate, adds at most 3 words, keeps the order of
\* what it keeps, and what it drops are the oldest entries: the new words
\* the exchange brings are in the list afterwards.
C38_TopicsBounded ==
    fn_call.op = "update_recent_topics" =>
       LET before == fn_call.topics
           after == cm_context.recent_topics
           added == Elements(after) \ Elements(before)
           kept == Len(after) - Cardinality(added)
           lowered == [i \in 1..Len(fn_call.words) |-> LowerWord(fn_call.words[i])]
           brought == SelectSeq(lowered, IsMeaningful) IN
       /\ Len(after) <= MaxTopics
       /\ NoDuplicates(after)
       /\ Cardinality(added) <= 3
       /\ kept <= Len(before)
       /\ SubSeq(after, 1, kept) = SubSeq(before, Len(before) - kept + 1, Len(before))
       /\ kept < Len(before) => Len(after) = MaxTopics
       /\ \A i \in 1..Len(brought) :
             (i <= 3 /\ brought[i] \notin Elements(before))
                => brought[i] \in Elements(after)

C38_Witness ==
    /\ fn_call.op = "update_recent_topics"
    /\ Len(fn_call.topics) = MaxTopics
    /\ Len(cm_context.recent_topics) = MaxTopics
    /\ cm_context.recent_topics[MaxTopics - 1] = "plan"
    /\ cm_context.recent_topics[1] = "t03"

(***************************************************************************)
(* Turns that do nothing, and the context over sessions                    *)
(***************************************************************************)
\* C32: process_audio_input on an active session whose transcription is
\* empty or blank returns None and leaves the history, the rolling topics
\* and the guard window as they were; no generation, no synthesis and no
\* pause / resume signal is made.
C32_EmptyTranscriptionSilent ==
    (/\ fn_call.op = "process_audio_input"
     /\ fn_call.was_active
     /\ fn_call.transcribed = "empty") =>
        /\ cm_result = "None"
        /\ conversation_history = fn_call.history
        /\ cm_context = fn_call.context
        /\ ignore_audio_until = fn_call.ignore_audio_until
        /\ turn_log = <<>>

C32_Witness ==
    /\ fn_call.op = "process_audio_input"
    /\ fn_call.was_active
    /\ fn_call.transcribed = "empty"
    /\ callbacks_set
    /\ cm_context.recent_topics # <<>>
    /\ cm_result = "None"

\* C35: after start_conversation, with or without a context argument, the
\* context holds nothing of the previous session: no topic, and without an
\* argument the default title.
C35_ContextResetOnStart ==
    fn_call.op = "start_conversation" =>
        /\ cm_context.recent_topics = <<>>
        /\ ~fn_call.given => cm_context = DefaultContext

\* C37: process_audio_input and process_text_input on a session that is not
\* active return None and change nothing: history, last_activity_time,
\* rolling topics and guard window are as before, and no generation,
\* synthesis or pause / resume signal is made.
C37_IdleTurnChangesNothing ==
    (fn_call.op \in TurnOps /\ ~fn_call.was_active) =>
        /\ cm_result = "None"
        /\ ~is_active
        /\ conversation_history = fn_call.history
        /\ last_activity_time = fn_call.last_activity_time
        /\ cm_context = fn_call.context
        /\ ignore_audio_until = fn_call.ignore_audio_until
        /\ turn_log = <<>>

C37_Witness ==
    /\ fn_call.op \in TurnOps
    /\ ~fn_call.was_active
    /\ conversation_history # <<>>
    /\ last_activity_time < now
    /\ cm_context.recent_topics # <<>>
    /\ cm_result = "None"

(***************************************************************************)
(* Playback                                                                *)
(***************************************************************************)
\* C33: wait_for_playback_complete returns True when the playback has
\* finished by the time it returns, after a blocking and after a non-blocking
\* play alike, and False only when its timeout has passed.
C33_WaitReportsCompletion ==
    (pc = "main" /\ fn_call.op = "wait_for_playback_complete") =>
        /\ fn_result.finished => fn_result.value = "True"
        /\ fn_result.value = "False" => now - fn_call.start >= fn_call.timeout

\* C34: a play call that returns False has not set the playing flag, and
\* when stop_playback has returned the flag is false.
C34_FlagRecoverable ==
    /\ (/\ fn_call.op \in {"play_audio_data", "play_audio_file"}
        /\ fn_result.value = "False") =>
           (playback_playing => fn_call.was_playing)
    /\ fn_call.op = "stop_playback" => ~playback_playing

(***************************************************************************)
(* The reply that is spoken                                                *)
(***************************************************************************)
\* C36: when a turn has handed a reply text to the synthesis, the newest
\* message of the history is the assistant message with that text, also
\* when the generation failed inside the manager and the text is the canned
\* apology.
C36_SpokenReplyRecorded ==
    (/\ last_call.op \in {"process_audio_input", "process_text_input"}
     /\ last_call.was_active
     /\ Len(turn_log) > 1) =>
        /\ conversation_history # <<>>
        /\ conversation_history[Len(conversation_history)] =
              [role |-> "assistant",
               content |-> GeneratedText(GenOf(last_call.turn.chat))]

====
